---- MODULE Spec2Model ----
(***************************************************************************)
(* Model of sdlc-config: ConfigLoader.validate (integrity validation of a *)
(* workflow configuration), ConfigMerger (merge, mergeEnvironment) and     *)
(* PhaseManager (navigation over the current configuration).               *)
(* Ids are strings; an optional field that is missing is                   *)
(* named in the owning record's "absent" set and its slot holds the empty  *)
(* value.  Paths are the strings the code builds; a message is the         *)
(* sequence of its literal and interpolated parts.                         *)
(***************************************************************************)
EXTENDS Integers, Sequences, FiniteSets, TLC

VARIABLES input, stage, vres, pmConfig, ret, base, override, calls, frame, heap

vars == <<input, stage, vres, pmConfig, ret, base, override, calls, frame, heap>>

(***************************************************************************)
(* Bounds of the explored configurations.                                  *)
(***************************************************************************)
MaxWorkflows == 2
MaxPhases == 2
MaxNext == 2
MaxTasks == 2
MaxDeps == 1
MaxTransitions == 2
MaxItems == 5
MaxMergeWorkflows == 2
MaxEnvironments == 2

WorkflowIds == {"w1", "w2"}
PhaseIds == {"p1", "p2"}
RefIds == PhaseIds \cup {"zz"}
InitialChoices == RefIds \cup {""}
NavInitialChoices == {"p1"}
TaskIds == {"t1", "t2"}
DepIds == TaskIds \cup {"tX"}

(***************************************************************************)
(* Generic helpers.                                                        *)
(***************************************************************************)
RECURSIVE Flatten(_)
Flatten(ss) == IF ss = <<>> THEN <<>> ELSE Head(ss) \o Flatten(Tail(ss))

Range(s) == {s[i] : i \in 1..Len(s)}

\* `${index}` in a template literal: decimal formatting of a forEach index
Digit(d) == CASE d = 0 -> "0" [] d = 1 -> "1" [] d = 2 -> "2" [] d = 3 -> "3"
              [] d = 4 -> "4" [] d = 5 -> "5" [] d = 6 -> "6" [] d = 7 -> "7"
              [] d = 8 -> "8" [] d = 9 -> "9"

RECURSIVE Decimal(_)
Decimal(n) == IF n < 10 THEN Digit(n) ELSE Decimal(n \div 10) \o Digit(n % 10)

\* the forEach index of the element at (1-based) position i
Idx(i) == Decimal(i - 1)

\* JavaScript truthiness of an optional string field
Truthy(rec, field, value) == field \notin rec.absent /\ value # ""

(***************************************************************************)
(* SchemaGate: the shape rules of sdlcConfigSchema that the modelled       *)
(* fields can break (required properties, minItems).                       *)
(***************************************************************************)
SchemaError(path, keyword, what) ==
    [path |-> path, message |-> <<keyword, what>>, type |-> "invalid"]

PhaseShapeErrors(phase, wIndex, pIndex) ==
    IF "nextPhases" \in phase.absent
    THEN <<SchemaError("/workflows/" \o wIndex \o "/phases/" \o pIndex, "required", "nextPhases")>>
    ELSE <<>>

WorkflowShapeErrors(workflow, wIndex) ==
    (IF "initialPhase" \in workflow.absent
     THEN <<SchemaError("/workflows/" \o wIndex, "required", "initialPhase")>> ELSE <<>>)
    \o (IF "phases" \in workflow.absent
        THEN <<SchemaError("/workflows/" \o wIndex, "required", "phases")>> ELSE <<>>)
    \o (IF "transitions" \in workflow.absent
        THEN <<SchemaError("/workflows/" \o wIndex, "required", "transitions")>> ELSE <<>>)
    \o (IF "phases" \notin workflow.absent /\ Len(workflow.phases) < 1
        THEN <<SchemaError("/workflows/" \o wIndex \o "/phases", "minItems", "1")>> ELSE <<>>)
    \o Flatten([p \in 1..Len(workflow.phases) |->
                  PhaseShapeErrors(workflow.phases[p], wIndex, Idx(p))])

validateFunction(config) ==
    (IF Len(config.workflows) < 1
     THEN <<SchemaError("/workflows", "minItems", "1")>> ELSE <<>>)
    \o Flatten([w \in 1..Len(config.workflows) |->
                  WorkflowShapeErrors(config.workflows[w], Idx(w))])

(***************************************************************************)
(* ConfigLoader.validate                                                   *)
(***************************************************************************)
ReferenceError(path, what, id, rest) ==
    [path |-> path, message |-> <<what, id, rest>>, type |-> "reference"]

\* slip: the id set misses the first phase
phaseIdsOf_skipFirst(workflow) == {workflow.phases[p].id : p \in 2..Len(workflow.phases)}

phaseIdsOf(workflow) == {workflow.phases[p].id : p \in 1..Len(workflow.phases)}

taskIdsOf(phase) == {phase.tasks[t].id : t \in 1..Len(phase.tasks)}

InitialPhaseErrors(workflow, wIndex) ==
    IF Truthy(workflow, "initialPhase", workflow.initialPhase)
       /\ workflow.initialPhase \notin phaseIdsOf(workflow)
    THEN <<ReferenceError("/workflows/" \o wIndex \o "/initialPhase",
                          "Initial phase", workflow.initialPhase,
                          "not found in workflow phases")>>
    ELSE <<>>

NextPhaseErrors(workflow, phase, wIndex, pIndex) ==
    Flatten([n \in 1..Len(phase.nextPhases) |->
        IF phase.nextPhases[n] \notin phaseIdsOf(workflow)
        THEN <<ReferenceError("/workflows/" \o wIndex \o "/phases/" \o pIndex \o "/nextPhases/" \o Idx(n),
                              "Next phase", phase.nextPhases[n],
                              "not found in workflow phases")>>
        ELSE <<>>])

\* slip: the task index is written where the dependency index belongs
TaskDependencyErrors_taskIndex(phase, wIndex, pIndex) ==
    Flatten([t \in 1..Len(phase.tasks) |->
        Flatten([d \in 1..Len(phase.tasks[t].dependencies) |->
            IF phase.tasks[t].dependencies[d] \notin taskIdsOf(phase)
            THEN <<ReferenceError("/workflows/" \o wIndex \o "/phases/" \o pIndex \o "/tasks/" \o Idx(t) \o "/dependencies/" \o Idx(t),
                                  "Task dependency", phase.tasks[t].dependencies[d],
                                  "not found in phase tasks")>>
            ELSE <<>>])])

TaskDependencyErrors(phase, wIndex, pIndex) ==
    Flatten([t \in 1..Len(phase.tasks) |->
        Flatten([d \in 1..Len(phase.tasks[t].dependencies) |->
            IF phase.tasks[t].dependencies[d] \notin taskIdsOf(phase)
            THEN <<ReferenceError("/workflows/" \o wIndex \o "/phases/" \o pIndex \o "/tasks/" \o Idx(t) \o "/dependencies/" \o Idx(d),
                                  "Task dependency", phase.tasks[t].dependencies[d],
                                  "not found in phase tasks")>>
            ELSE <<>>])])

\* slip: only the source of a transition is looked up
TransitionErrors_fromOnly(workflow, wIndex) ==
    Flatten([tr \in 1..Len(workflow.transitions) |->
        IF workflow.transitions[tr].from \notin phaseIdsOf(workflow)
        THEN <<ReferenceError("/workflows/" \o wIndex \o "/transitions/" \o Idx(tr) \o "/from",
                              "Transition source phase", workflow.transitions[tr].from,
                              "not found")>>
        ELSE <<>>])

TransitionErrors(workflow, wIndex) ==
    Flatten([tr \in 1..Len(workflow.transitions) |->
        (IF workflow.transitions[tr].from \notin phaseIdsOf(workflow)
         THEN <<ReferenceError("/workflows/" \o wIndex \o "/transitions/" \o Idx(tr) \o "/from",
                               "Transition source phase", workflow.transitions[tr].from,
                               "not found")>>
         ELSE <<>>)
        \o (IF workflow.transitions[tr].to \notin phaseIdsOf(workflow)
            THEN <<ReferenceError("/workflows/" \o wIndex \o "/transitions/" \o Idx(tr) \o "/to",
                                  "Transition target phase", workflow.transitions[tr].to,
                                  "not found")>>
            ELSE <<>>)])

WorkflowReferenceErrors(workflow, wIndex) ==
    IF "phases" \in workflow.absent THEN <<>>
    ELSE InitialPhaseErrors(workflow, wIndex)
         \o Flatten([p \in 1..Len(workflow.phases) |->
                NextPhaseErrors(workflow, workflow.phases[p], wIndex, Idx(p))
                \o TaskDependencyErrors(workflow.phases[p], wIndex, Idx(p))])
         \o TransitionErrors(workflow, wIndex)

\* slip: nextPhases targets are not collected
referencedPhases_noNextPhases(workflow) ==
    (IF Truthy(workflow, "initialPhase", workflow.initialPhase)
     THEN {workflow.initialPhase} ELSE {})
    \cup UNION {{workflow.transitions[t].from, workflow.transitions[t].to} :
                  t \in 1..Len(workflow.transitions)}

\* slip: a phase that lists nextPhases counts as referenced itself
referencedPhases_withSources(workflow) ==
    (IF Truthy(workflow, "initialPhase", workflow.initialPhase)
     THEN {workflow.initialPhase} ELSE {})
    \cup UNION {{workflow.transitions[t].from, workflow.transitions[t].to} :
                  t \in 1..Len(workflow.transitions)}
    \cup UNION {Range(workflow.phases[p].nextPhases) \cup
                  (IF Len(workflow.phases[p].nextPhases) > 0
                   THEN {workflow.phases[p].id} ELSE {}) : p \in 1..Len(workflow.phases)}

referencedPhases(workflow) ==
    (IF Truthy(workflow, "initialPhase", workflow.initialPhase)
     THEN {workflow.initialPhase} ELSE {})
    \cup UNION {{workflow.transitions[t].from, workflow.transitions[t].to} :
                  t \in 1..Len(workflow.transitions)}
    \cup UNION {Range(workflow.phases[p].nextPhases) : p \in 1..Len(workflow.phases)}

UnusedWarning(wIndex, pIndex, id) ==
    [path |-> "/workflows/" \o wIndex \o "/phases/" \o pIndex,
     message |-> <<"Phase", id, "is not referenced by any transition or phase">>,
     type |-> "unused"]

UnusedPhaseWarnings(workflow, wIndex) ==
    IF "phases" \in workflow.absent THEN <<>>
    ELSE Flatten([p \in 1..Len(workflow.phases) |->
            IF workflow.phases[p].id \notin referencedPhases(workflow)
            THEN <<UnusedWarning(wIndex, Idx(p), workflow.phases[p].id)>>
            ELSE <<>>])

DeprecatedWarnings(config) ==
    IF "metadata" \notin config.absent /\ "legacyMode" \in config.metadata
    THEN <<[path |-> "/metadata/legacyMode",
            message |-> <<"The legacyMode flag is deprecated and will be removed in future versions">>,
            type |-> "deprecated"]>>
    ELSE <<>>

\* slip: warnings count against validity
ValidationResult_countsWarnings(errors, warnings) ==
    [valid |-> Len(errors) = 0 /\ Len(warnings) = 0, errors |-> errors, warnings |-> warnings]

ValidationResult(errors, warnings) ==
    [valid |-> Len(errors) = 0, errors |-> errors, warnings |-> warnings]

validate(config) ==
    ValidationResult(
        validateFunction(config)
        \o Flatten([w \in 1..Len(config.workflows) |->
                      WorkflowReferenceErrors(config.workflows[w], Idx(w))]),
        Flatten([w \in 1..Len(config.workflows) |->
                   UnusedPhaseWarnings(config.workflows[w], Idx(w))])
        \o DeprecatedWarnings(config))

(***************************************************************************)
(* The configuration handed to the program: built field by field, as a    *)
(* document author would write it, within the bounds above.                *)
(***************************************************************************)
RECURSIVE Sum(_)
Sum(ns) == IF ns = <<>> THEN 0 ELSE Head(ns) + Sum(Tail(ns))

PhaseSize(phase) ==
    1 + Cardinality(phase.absent) + Len(phase.nextPhases)
      + Len(phase.tasks)

WorkflowSize(workflow) ==
    1 + Cardinality(workflow.absent) + Len(workflow.transitions)
      + Sum([p \in 1..Len(workflow.phases) |-> PhaseSize(workflow.phases[p])])

ConfigSize(config) ==
    (IF "metadata" \in config.absent THEN 0 ELSE 1)
    + Sum([w \in 1..Len(config.workflows) |-> WorkflowSize(config.workflows[w])])

EmptyConfig == [workflows |-> <<>>, absent |-> {"metadata"}, metadata |-> {}]

NewWorkflow(id, initialPhase) ==
    [id |-> id, absent |-> {}, initialPhase |-> initialPhase,
     phases |-> <<>>, transitions |-> <<>>]

\* requiresApproval is read for its truthiness only: FALSE stands for false and
\* for a missing flag alike
NewPhase(id) ==
    [id |-> id, absent |-> {}, exitConditions |-> <<"done">>,
     nextPhases |-> <<>>, tasks |-> <<>>, requiresApproval |-> FALSE]

NewTask(id) == [id |-> id, required |-> TRUE, dependencies |-> <<>>]

NewTransition(from, to) == [from |-> from, to |-> to, conditions |-> <<"approved">>, metadata |-> {}]

NoResult == [valid |-> FALSE, errors |-> <<>>, warnings |-> <<>>, none |-> TRUE]

NoRet == [op |-> "none"]

\* no call is in flight
NoFrame == [pc |-> "idle"]

\* no object has been allocated
EmptyHeap == <<>>

\* an optional value: Null (null / undefined) or Some(v)
Null == <<>>

Some(v) == <<v>>

\* the document is written before any call on it is made
Drafting == stage = "build" /\ ret = NoRet

Building == Drafting /\ ConfigSize(input) < MaxItems

Workflows == 1..Len(input.workflows)

PhasesOf(w) == 1..Len(input.workflows[w].phases)

TasksOf(w, p) == 1..Len(input.workflows[w].phases[p].tasks)

AddWorkflow ==
    /\ Building
    /\ Len(input.workflows) < MaxWorkflows
    /\ \E id \in WorkflowIds, initialPhase \in InitialChoices :
         input' = [input EXCEPT !.workflows = Append(@, NewWorkflow(id, initialPhase))]
    /\ UNCHANGED <<calls, frame, heap, base, override, stage, vres, pmConfig, ret>>

OmitWorkflowField ==
    /\ Building
    /\ \E w \in Workflows, field \in {"initialPhase", "phases", "transitions"} :
         /\ field \notin input.workflows[w].absent
         /\ field = "initialPhase" => input.workflows[w].initialPhase = ""
         /\ field = "phases" => input.workflows[w].phases = <<>>
         /\ field = "transitions" => input.workflows[w].transitions = <<>>
         /\ input' = [input EXCEPT !.workflows[w].absent = @ \cup {field}]
    /\ UNCHANGED <<calls, frame, heap, base, override, stage, vres, pmConfig, ret>>

AddPhase ==
    /\ Building
    /\ \E w \in Workflows, id \in PhaseIds :
         /\ "phases" \notin input.workflows[w].absent
         /\ Len(input.workflows[w].phases) < MaxPhases
         /\ input' = [input EXCEPT !.workflows[w].phases = Append(@, NewPhase(id))]
    /\ UNCHANGED <<calls, frame, heap, base, override, stage, vres, pmConfig, ret>>

OmitNextPhases ==
    /\ Building
    /\ \E w \in Workflows : \E p \in PhasesOf(w) :
         /\ input.workflows[w].phases[p].absent = {}
         /\ input.workflows[w].phases[p].nextPhases = <<>>
         /\ input' = [input EXCEPT !.workflows[w].phases[p].absent = {"nextPhases"}]
    /\ UNCHANGED <<calls, frame, heap, base, override, stage, vres, pmConfig, ret>>

AddNextPhase ==
    /\ Building
    /\ \E w \in Workflows : \E p \in PhasesOf(w) : \E id \in RefIds :
         /\ input.workflows[w].phases[p].absent = {}
         /\ Len(input.workflows[w].phases[p].nextPhases) < MaxNext
         /\ input' = [input EXCEPT !.workflows[w].phases[p].nextPhases = Append(@, id)]
    /\ UNCHANGED <<calls, frame, heap, base, override, stage, vres, pmConfig, ret>>

AddTask ==
    /\ Building
    /\ \E w \in Workflows : \E p \in PhasesOf(w) : \E id \in TaskIds :
         /\ Len(input.workflows[w].phases[p].tasks) < MaxTasks
         /\ input' = [input EXCEPT !.workflows[w].phases[p].tasks = Append(@, NewTask(id))]
    /\ UNCHANGED <<calls, frame, heap, base, override, stage, vres, pmConfig, ret>>

AddDependency ==
    /\ Drafting
    /\ \E w \in Workflows : \E p \in PhasesOf(w) : \E t \in TasksOf(w, p) : \E id \in DepIds :
         /\ Len(input.workflows[w].phases[p].tasks[t].dependencies) < MaxDeps
         /\ input' = [input EXCEPT
                        !.workflows[w].phases[p].tasks[t].dependencies = Append(@, id)]
    /\ UNCHANGED <<calls, frame, heap, base, override, stage, vres, pmConfig, ret>>

AddTransition ==
    /\ Building
    /\ \E w \in Workflows : \E from \in RefIds, to \in RefIds :
         /\ "transitions" \notin input.workflows[w].absent
         /\ Len(input.workflows[w].transitions) < MaxTransitions
         /\ input' = [input EXCEPT
                        !.workflows[w].transitions = Append(@, NewTransition(from, to))]
    /\ UNCHANGED <<calls, frame, heap, base, override, stage, vres, pmConfig, ret>>

SetMetadata ==
    /\ Building
    /\ "metadata" \in input.absent
    /\ \E keys \in {{"owner"}, {"legacyMode"}} :
         input' = [input EXCEPT !.absent = {}, !.metadata = keys]
    /\ UNCHANGED <<calls, frame, heap, base, override, stage, vres, pmConfig, ret>>

\* configLoader.validate(input)
Validate ==
    /\ Drafting
    /\ vres' = validate(input)
    /\ stage' = "validated"
    /\ UNCHANGED <<calls, frame, heap, base, override, input, pmConfig, ret>>

InitValidate ==
    /\ input = EmptyConfig
    /\ stage = "build"
    /\ vres = NoResult
    /\ pmConfig = Null
    /\ ret = NoRet
    /\ base = Null
    /\ override = Null
    /\ calls = 0
    /\ frame = NoFrame
    /\ heap = EmptyHeap

NextValidate ==
    \/ AddWorkflow \/ OmitWorkflowField \/ AddPhase \/ OmitNextPhases \/ AddNextPhase
    \/ AddTask \/ AddDependency \/ AddTransition \/ SetMetadata
    \/ Validate

SpecValidate == InitValidate /\ [][NextValidate]_vars

(***************************************************************************)
(* PhaseManager: the current configuration (pmConfig, null until setConfig)*)
(* and its queries.                                                        *)
(***************************************************************************)
Min(S) == CHOOSE x \in S : \A y \in S : x <= y

\* Array.prototype.find on workflows / phases: the first element with the id
findWorkflow(config, workflowId) ==
    LET hits == {i \in 1..Len(config.workflows) : config.workflows[i].id = workflowId}
    IN IF hits = {} THEN Null ELSE Some(config.workflows[Min(hits)])

findPhase(workflow, phaseId) ==
    LET hits == {i \in 1..Len(workflow.phases) : workflow.phases[i].id = phaseId}
    IN IF hits = {} THEN Null ELSE Some(workflow.phases[Min(hits)])

\* slip: the phase is looked up in every workflow, whatever its id
getPhase_anyWorkflow(current, workflowId, phaseId) ==
    IF current = Null THEN Null
    ELSE LET hits == {w \in 1..Len(current[1].workflows) :
                        findPhase(current[1].workflows[w], phaseId) # Null}
         IN IF hits = {} THEN Null
            ELSE findPhase(current[1].workflows[Min(hits)], phaseId)

getPhase(current, workflowId, phaseId) ==
    IF current = Null THEN Null
    ELSE LET workflow == findWorkflow(current[1], workflowId)
         IN IF workflow = Null THEN Null ELSE findPhase(workflow[1], phaseId)

ImplicitTransition(from, to) ==
    [from |-> from, to |-> to, conditions |-> <<>>, metadata |-> {"implicit"}]

\* workflow.transitions.filter((t) => t.from === currentPhaseId)
explicitTransitions(workflow, currentPhaseId) ==
    SelectSeq(workflow.transitions, LAMBDA t : t.from = currentPhaseId)

\* slip: nextPhases is walked from its end
implicitTransitions_reversed(nextPhases, currentPhaseId, explicitTransitionTargets) ==
    Flatten([n \in 1..Len(nextPhases) |->
        IF nextPhases[Len(nextPhases) + 1 - n] \notin explicitTransitionTargets
        THEN <<ImplicitTransition(currentPhaseId, nextPhases[Len(nextPhases) + 1 - n])>>
        ELSE <<>>])

\* slip: the explicit targets are not consulted
implicitTransitions_noSuppression(nextPhases, currentPhaseId, explicitTransitionTargets) ==
    [n \in 1..Len(nextPhases) |-> ImplicitTransition(currentPhaseId, nextPhases[n])]

\* the transitions pushed by phase.nextPhases.forEach
implicitTransitions(nextPhases, currentPhaseId, explicitTransitionTargets) ==
    Flatten([n \in 1..Len(nextPhases) |->
        IF nextPhases[n] \notin explicitTransitionTargets
        THEN <<ImplicitTransition(currentPhaseId, nextPhases[n])>>
        ELSE <<>>])

getAvailableTransitions(current, workflowId, currentPhaseId) ==
    IF current = Null THEN <<>>
    ELSE LET workflow == findWorkflow(current[1], workflowId) IN
      IF workflow = Null THEN <<>>
      ELSE LET phase == getPhase(current, workflowId, currentPhaseId) IN
        IF phase = Null THEN <<>>
        ELSE LET availableTransitions == explicitTransitions(workflow[1], currentPhaseId)
                 explicitTransitionTargets ==
                     {availableTransitions[i].to : i \in 1..Len(availableTransitions)}
             IN availableTransitions
                \o implicitTransitions(phase[1].nextPhases, currentPhaseId,
                                       explicitTransitionTargets)

\* slip: only declared transitions are consulted
canTransition_explicitOnly(current, workflowId, from, to) ==
    LET workflow == IF current = Null THEN Null ELSE findWorkflow(current[1], workflowId)
    IN /\ workflow # Null
       /\ \E i \in 1..Len(workflow[1].transitions) :
            workflow[1].transitions[i].from = from /\ workflow[1].transitions[i].to = to

canTransition(current, workflowId, from, to) ==
    LET availableTransitions == getAvailableTransitions(current, workflowId, from)
    IN \E i \in 1..Len(availableTransitions) : availableTransitions[i].to = to

\* what validatePhaseCompletion writes to its logger for a found phase: the
\* number of required tasks when there are any, and the approval notice
completionLog(phase) ==
    LET requiredTasks == SelectSeq(phase.tasks, LAMBDA t : t.required)
    IN (IF Len(requiredTasks) > 0
        THEN <<<<"Phase has required tasks", Len(requiredTasks)>>>> ELSE <<>>)
       \o (IF phase.requiresApproval
           THEN <<<<"Phase requires approval before completion">>>> ELSE <<>>)

exitConditionWarnings(phase, workflowId, phaseId) ==
    IF Len(phase.exitConditions) = 0
    THEN <<[path |-> "/workflows/" \o workflowId \o "/phases/" \o phaseId
                       \o "/exitConditions",
            message |-> <<"Phase has no exit conditions defined">>,
            type |-> "best-practice"]>>
    ELSE <<>>

\* slip: only nextPhases is consulted, declared transitions are not
deadEndWarnings_nextPhasesOnly(current, phase, workflowId, phaseId) ==
    IF Len(phase.nextPhases) = 0
    THEN <<[path |-> "/workflows/" \o workflowId \o "/phases/" \o phaseId,
            message |-> <<"Phase has no available transitions or next phases">>,
            type |-> "best-practice"]>>
    ELSE <<>>

deadEndWarnings(current, phase, workflowId, phaseId) ==
    IF Len(getAvailableTransitions(current, workflowId, phaseId)) = 0
       /\ Len(phase.nextPhases) = 0
    THEN <<[path |-> "/workflows/" \o workflowId \o "/phases/" \o phaseId,
            message |-> <<"Phase has no available transitions or next phases">>,
            type |-> "best-practice"]>>
    ELSE <<>>

\* slip: a required task makes the phase incomplete
validatePhaseCompletion_requiredTasksBlock(current, workflowId, phaseId) ==
    IF current = Null
    THEN [valid |-> FALSE,
          errors |-> <<[path |-> "/", message |-> <<"No configuration loaded">>,
                        type |-> "missing"]>>,
          warnings |-> <<>>]
    ELSE LET phase == getPhase(current, workflowId, phaseId) IN
      IF phase = Null
      THEN [valid |-> FALSE,
            errors |-> <<[path |-> "/workflows/" \o workflowId \o "/phases/" \o phaseId,
                          message |-> <<"Phase not found">>, type |-> "missing"]>>,
            warnings |-> <<>>]
      ELSE ValidationResult(
             IF \E t \in 1..Len(phase[1].tasks) : phase[1].tasks[t].required
             THEN <<[path |-> "/workflows/" \o workflowId \o "/phases/" \o phaseId,
                     message |-> <<"Required tasks are not complete">>,
                     type |-> "missing"]>>
             ELSE <<>>,
             exitConditionWarnings(phase[1], workflowId, phaseId)
             \o deadEndWarnings(current, phase[1], workflowId, phaseId))

validatePhaseCompletion(current, workflowId, phaseId) ==
    IF current = Null
    THEN [valid |-> FALSE,
          errors |-> <<[path |-> "/", message |-> <<"No configuration loaded">>,
                        type |-> "missing"]>>,
          warnings |-> <<>>]
    ELSE LET phase == getPhase(current, workflowId, phaseId) IN
      IF phase = Null
      THEN [valid |-> FALSE,
            errors |-> <<[path |-> "/workflows/" \o workflowId \o "/phases/" \o phaseId,
                          message |-> <<"Phase not found">>, type |-> "missing"]>>,
            warnings |-> <<>>]
      ELSE ValidationResult(
             <<>>,
             exitConditionWarnings(phase[1], workflowId, phaseId)
             \o deadEndWarnings(current, phase[1], workflowId, phaseId))

getAllPhases(current, workflowId) ==
    IF current = Null THEN <<>>
    ELSE LET workflow == findWorkflow(current[1], workflowId)
         IN IF workflow = Null THEN <<>> ELSE workflow[1].phases

getWorkflow(current, workflowId) ==
    IF current = Null THEN Null ELSE findWorkflow(current[1], workflowId)

\* a workflow of a configuration that is going to be navigated
AddNavWorkflow ==
    /\ Building
    /\ Len(input.workflows) < MaxWorkflows
    /\ \E id \in WorkflowIds, initialPhase \in NavInitialChoices :
         input' = [input EXCEPT !.workflows = Append(@, NewWorkflow(id, initialPhase))]
    /\ UNCHANGED <<calls, frame, heap, base, override, stage, vres, pmConfig, ret>>

\* the author writes `exitConditions: []` for a phase
ClearExitConditions ==
    /\ Building
    /\ \E w \in Workflows : \E p \in PhasesOf(w) :
         /\ input.workflows[w].phases[p].exitConditions # <<>>
         /\ input' = [input EXCEPT !.workflows[w].phases[p].exitConditions = <<>>]
    /\ UNCHANGED <<calls, frame, heap, base, override, stage, vres, pmConfig, ret>>

\* phaseManager.setConfig(input), after the caller has validated input
SetConfig ==
    /\ stage = "validated"
    /\ pmConfig' = Some(input)
    /\ stage' = "set"
    /\ UNCHANGED <<calls, frame, heap, base, override, input, vres, ret>>

\* one query is observed, on the fresh manager or after setConfig
Querying == ret = NoRet /\ (stage = "set" \/ (stage = "build" /\ input = EmptyConfig))

GetPhase ==
    /\ Querying
    /\ \E workflowId \in WorkflowIds, phaseId \in RefIds :
         ret' = [op |-> "getPhase", workflowId |-> workflowId, phaseId |-> phaseId,
                 result |-> getPhase(pmConfig, workflowId, phaseId)]
    /\ UNCHANGED <<calls, frame, heap, base, override, input, stage, vres, pmConfig>>

GetAvailableTransitions ==
    /\ Querying
    /\ \E workflowId \in WorkflowIds, phaseId \in RefIds :
         ret' = [op |-> "getAvailableTransitions", workflowId |-> workflowId,
                 phaseId |-> phaseId,
                 result |-> getAvailableTransitions(pmConfig, workflowId, phaseId)]
    /\ UNCHANGED <<calls, frame, heap, base, override, input, stage, vres, pmConfig>>

CanTransition ==
    /\ Querying
    /\ \E workflowId \in WorkflowIds, from \in RefIds, to \in RefIds :
         ret' = [op |-> "canTransition", workflowId |-> workflowId, phaseId |-> from,
                 to |-> to, result |-> canTransition(pmConfig, workflowId, from, to)]
    /\ UNCHANGED <<calls, frame, heap, base, override, input, stage, vres, pmConfig>>

ValidatePhaseCompletion ==
    /\ Querying
    /\ \E workflowId \in WorkflowIds, phaseId \in RefIds :
         ret' = [op |-> "validatePhaseCompletion", workflowId |-> workflowId,
                 phaseId |-> phaseId,
                 result |-> validatePhaseCompletion(pmConfig, workflowId, phaseId),
                 log |-> IF getPhase(pmConfig, workflowId, phaseId) = Null THEN <<>>
                         ELSE completionLog(getPhase(pmConfig, workflowId, phaseId)[1])]
    /\ UNCHANGED <<calls, frame, heap, base, override, input, stage, vres, pmConfig>>

GetAllPhases ==
    /\ Querying
    /\ \E workflowId \in WorkflowIds :
         ret' = [op |-> "getAllPhases", workflowId |-> workflowId,
                 result |-> getAllPhases(pmConfig, workflowId)]
    /\ UNCHANGED <<calls, frame, heap, base, override, input, stage, vres, pmConfig>>

GetWorkflow ==
    /\ Querying
    /\ \E workflowId \in WorkflowIds :
         ret' = [op |-> "getWorkflow", workflowId |-> workflowId,
                 result |-> getWorkflow(pmConfig, workflowId)]
    /\ UNCHANGED <<calls, frame, heap, base, override, input, stage, vres, pmConfig>>

InitNav == InitValidate

NextNav ==
    \/ AddNavWorkflow \/ AddPhase \/ AddNextPhase \/ AddTransition \/ ClearExitConditions
    \/ Validate \/ SetConfig
    \/ GetPhase \/ GetAvailableTransitions \/ CanTransition
    \/ ValidatePhaseCompletion \/ GetAllPhases \/ GetWorkflow

SpecNav == InitNav /\ [][NextNav]_vars

(***************************************************************************)
(* Completion checks: phases with tasks and approval flags are written,    *)
(* the configuration is set and validatePhaseCompletion is asked once.     *)
(***************************************************************************)
AddCompletionTask ==
    /\ Building
    /\ \E w \in Workflows : \E p \in PhasesOf(w) : \E required \in BOOLEAN :
         /\ Len(input.workflows[w].phases[p].tasks) < MaxTasks
         /\ input' = [input EXCEPT !.workflows[w].phases[p].tasks =
                        Append(@, [NewTask("t1") EXCEPT !.required = required])]
    /\ UNCHANGED <<calls, frame, heap, base, override, stage, vres, pmConfig, ret>>

\* the author writes `requiresApproval: true` for a phase
RequireApproval ==
    /\ Drafting
    /\ \E w \in Workflows : \E p \in PhasesOf(w) :
         /\ ~input.workflows[w].phases[p].requiresApproval
         /\ input' = [input EXCEPT !.workflows[w].phases[p].requiresApproval = TRUE]
    /\ UNCHANGED <<calls, frame, heap, base, override, stage, vres, pmConfig, ret>>

InitCompletion == InitValidate

NextCompletion ==
    \/ AddNavWorkflow \/ AddPhase \/ AddNextPhase \/ AddTransition \/ ClearExitConditions
    \/ AddCompletionTask \/ RequireApproval
    \/ Validate \/ SetConfig
    \/ ValidatePhaseCompletion

SpecCompletion == InitCompletion /\ [][NextCompletion]_vars

(***************************************************************************)
(* ConfigMerger.  An optional property is Null when it is missing or       *)
(* undefined and Some(v) otherwise; an object used as a map (metadata,     *)
(* timeoutSettings, integrations, featureFlags, variables) is a function   *)
(* from its keys.                                                          *)
(***************************************************************************)
EmptyMap == [k \in {} |-> ""]

\* a || b where a is an optional string: the empty string is falsy
OrString(a, b) == IF a # Null /\ a[1] # "" THEN a ELSE b

\* a || b where a is an optional array: every array is truthy
OrArray(a, b) == IF a # Null THEN a ELSE b

\* a ?? b
Coalesce(a, b) == IF a # Null THEN a ELSE b

\* { ...a, ...b } on optional objects: spreading undefined adds nothing
Spread(a, b) ==
    (IF b = Null THEN EmptyMap ELSE b[1]) @@ (IF a = Null THEN EmptyMap ELSE a[1])

mergeMetadata(baseMetadata, overrideMetadata) ==
    IF baseMetadata = Null /\ overrideMetadata = Null THEN Null
    ELSE IF baseMetadata = Null THEN overrideMetadata
    ELSE IF overrideMetadata = Null THEN baseMetadata
    ELSE Some(Spread(baseMetadata, overrideMetadata))

\* slip: the arrays of both sides are concatenated
mergeWorkflowSettings_concat(baseSettings, overrideSettings) ==
    IF baseSettings = Null /\ overrideSettings = Null THEN Null
    ELSE IF baseSettings = Null THEN overrideSettings
    ELSE IF overrideSettings = Null THEN baseSettings
    ELSE Some([requireApprovalForTransitions |->
                   Coalesce(overrideSettings[1].requireApprovalForTransitions,
                            baseSettings[1].requireApprovalForTransitions),
               defaultApprovers |->
                   IF baseSettings[1].defaultApprovers # Null
                      /\ overrideSettings[1].defaultApprovers # Null
                   THEN Some(baseSettings[1].defaultApprovers[1]
                             \o overrideSettings[1].defaultApprovers[1])
                   ELSE OrArray(overrideSettings[1].defaultApprovers,
                                baseSettings[1].defaultApprovers),
               notificationChannels |->
                   OrArray(overrideSettings[1].notificationChannels,
                           baseSettings[1].notificationChannels),
               timeoutSettings |->
                   Some(Spread(baseSettings[1].timeoutSettings,
                               overrideSettings[1].timeoutSettings)),
               integrations |->
                   Some(Spread(baseSettings[1].integrations,
                               overrideSettings[1].integrations))])

mergeWorkflowSettings(baseSettings, overrideSettings) ==
    IF baseSettings = Null /\ overrideSettings = Null THEN Null
    ELSE IF baseSettings = Null THEN overrideSettings
    ELSE IF overrideSettings = Null THEN baseSettings
    ELSE Some([requireApprovalForTransitions |->
                   Coalesce(overrideSettings[1].requireApprovalForTransitions,
                            baseSettings[1].requireApprovalForTransitions),
               defaultApprovers |->
                   OrArray(overrideSettings[1].defaultApprovers,
                           baseSettings[1].defaultApprovers),
               notificationChannels |->
                   OrArray(overrideSettings[1].notificationChannels,
                           baseSettings[1].notificationChannels),
               timeoutSettings |->
                   Some(Spread(baseSettings[1].timeoutSettings,
                               overrideSettings[1].timeoutSettings)),
               integrations |->
                   Some(Spread(baseSettings[1].integrations,
                               overrideSettings[1].integrations))])

\* slip: override's phases are appended to base's
mergeWorkflow_appendPhases(baseWorkflow, overrideWorkflow) ==
    [overrideWorkflow EXCEPT
       !.phases = baseWorkflow.phases \o @,
       !.description = IF @ # Null THEN @ ELSE baseWorkflow.description,
       !.globalSettings = mergeWorkflowSettings(baseWorkflow.globalSettings, @),
       !.metadata = mergeMetadata(baseWorkflow.metadata, @)]

\* slip: the phases stay base's while the other properties are override's
mergeWorkflow_basePhases(baseWorkflow, overrideWorkflow) ==
    [overrideWorkflow EXCEPT
       !.phases = baseWorkflow.phases,
       !.description = IF @ # Null THEN @ ELSE baseWorkflow.description,
       !.globalSettings = mergeWorkflowSettings(baseWorkflow.globalSettings, @),
       !.metadata = mergeMetadata(baseWorkflow.metadata, @)]

\* { ...base, ...override, globalSettings, metadata }: every required property
\* comes from override, an optional one from base when override lacks it
mergeWorkflow(baseWorkflow, overrideWorkflow) ==
    [overrideWorkflow EXCEPT
       !.description = IF @ # Null THEN @ ELSE baseWorkflow.description,
       !.globalSettings = mergeWorkflowSettings(baseWorkflow.globalSettings, @),
       !.metadata = mergeMetadata(baseWorkflow.metadata, @)]

\* a Map: its entries in insertion order; set() on an existing key keeps the
\* entry's position
MapHas(map, key) == \E i \in 1..Len(map) : map[i].key = key

MapGet(map, key) == (CHOOSE e \in Range(map) : e.key = key).value

MapSet(map, key, value) ==
    IF MapHas(map, key)
    THEN [i \in 1..Len(map) |->
            IF map[i].key = key THEN [key |-> key, value |-> value] ELSE map[i]]
    ELSE Append(map, [key |-> key, value |-> value])

MapValues(map) == [i \in 1..Len(map) |-> map[i].value]

\* baseWorkflows.forEach((workflow) => workflowMap.set(workflow.id, workflow))
RECURSIVE addBaseWorkflows(_, _)
addBaseWorkflows(workflowMap, workflows) ==
    IF workflows = <<>> THEN workflowMap
    ELSE addBaseWorkflows(MapSet(workflowMap, Head(workflows).id, Head(workflows)),
                          Tail(workflows))

\* slip: every override workflow is added as a new entry
addOverrideWorkflows_append(workflowMap, workflows) ==
    workflowMap \o [i \in 1..Len(workflows) |->
                     [key |-> workflows[i].id, value |-> workflows[i]]]

RECURSIVE addOverrideWorkflows(_, _)
addOverrideWorkflows(workflowMap, workflows) ==
    IF workflows = <<>> THEN workflowMap
    ELSE LET workflow == Head(workflows)
         IN addOverrideWorkflows(
              IF MapHas(workflowMap, workflow.id)
              THEN MapSet(workflowMap, workflow.id,
                          mergeWorkflow(MapGet(workflowMap, workflow.id), workflow))
              ELSE MapSet(workflowMap, workflow.id, workflow),
              Tail(workflows))

\* slip: the override workflows are put in front of the base workflows
mergeWorkflows_overrideFirst(baseWorkflows, overrideWorkflows) ==
    IF Len(overrideWorkflows) = 0 THEN baseWorkflows
    ELSE LET merged == MapValues(addOverrideWorkflows(addBaseWorkflows(<<>>, baseWorkflows),
                                                      overrideWorkflows))
             baseIds == {baseWorkflows[i].id : i \in 1..Len(baseWorkflows)}
         IN SelectSeq(merged, LAMBDA w : w.id \notin baseIds)
            \o SelectSeq(merged, LAMBDA w : w.id \in baseIds)

mergeWorkflows(baseWorkflows, overrideWorkflows) ==
    IF Len(overrideWorkflows) = 0 THEN baseWorkflows
    ELSE MapValues(addOverrideWorkflows(addBaseWorkflows(<<>>, baseWorkflows),
                                        overrideWorkflows))

RECURSIVE addBaseEnvironments(_, _)
addBaseEnvironments(envMap, environments) ==
    IF environments = <<>> THEN envMap
    ELSE addBaseEnvironments(MapSet(envMap, Head(environments).name, Head(environments)),
                             Tail(environments))

\* slip: featureFlags of the base environment are dropped
mergeEnvironmentEntry_dropBaseFlags(existing, env) ==
    [env EXCEPT
       !.description = IF @ # Null THEN @ ELSE existing.description,
       !.overrides = mergeWorkflowSettings(existing.overrides, @),
       !.featureFlags = Some(Spread(Null, @)),
       !.variables = Some(Spread(existing.variables, @))]

\* { ...existing, ...env, overrides, featureFlags, variables }
mergeEnvironmentEntry(existing, env) ==
    [env EXCEPT
       !.description = IF @ # Null THEN @ ELSE existing.description,
       !.overrides = mergeWorkflowSettings(existing.overrides, @),
       !.featureFlags = Some(Spread(existing.featureFlags, @)),
       !.variables = Some(Spread(existing.variables, @))]

RECURSIVE addOverrideEnvironments(_, _)
addOverrideEnvironments(envMap, environments) ==
    IF environments = <<>> THEN envMap
    ELSE LET env == Head(environments)
         IN addOverrideEnvironments(
              IF MapHas(envMap, env.name)
              THEN MapSet(envMap, env.name,
                          mergeEnvironmentEntry(MapGet(envMap, env.name), env))
              ELSE MapSet(envMap, env.name, env),
              Tail(environments))

mergeEnvironments(baseEnvironments, overrideEnvironments) ==
    IF baseEnvironments = Null /\ overrideEnvironments = Null THEN Null
    ELSE IF baseEnvironments = Null THEN overrideEnvironments
    ELSE IF overrideEnvironments = Null THEN baseEnvironments
    ELSE Some(MapValues(addOverrideEnvironments(
                          addBaseEnvironments(<<>>, baseEnvironments[1]),
                          overrideEnvironments[1])))

\* slip: base wins over override on the scalar fields
merge_baseWins(baseConfig, overrideConfig) ==
    [version |-> OrString(baseConfig.version, overrideConfig.version),
     workflows |-> mergeWorkflows(baseConfig.workflows, overrideConfig.workflows),
     environments |-> mergeEnvironments(baseConfig.environments, overrideConfig.environments),
     defaultWorkflow |-> OrString(baseConfig.defaultWorkflow, overrideConfig.defaultWorkflow),
     defaultEnvironment |->
         OrString(baseConfig.defaultEnvironment, overrideConfig.defaultEnvironment),
     metadata |-> mergeMetadata(baseConfig.metadata, overrideConfig.metadata)]

merge(baseConfig, overrideConfig) ==
    [version |-> OrString(overrideConfig.version, baseConfig.version),
     workflows |-> mergeWorkflows(baseConfig.workflows, overrideConfig.workflows),
     environments |-> mergeEnvironments(baseConfig.environments, overrideConfig.environments),
     defaultWorkflow |-> OrString(overrideConfig.defaultWorkflow, baseConfig.defaultWorkflow),
     defaultEnvironment |->
         OrString(overrideConfig.defaultEnvironment, baseConfig.defaultEnvironment),
     metadata |-> mergeMetadata(baseConfig.metadata, overrideConfig.metadata)]

findEnvironment(config, environmentName) ==
    IF config.environments = Null THEN Null
    ELSE LET hits == {i \in 1..Len(config.environments[1]) :
                        config.environments[1][i].name = environmentName}
         IN IF hits = {} THEN Null ELSE Some(config.environments[1][Min(hits)])

\* JSON.parse(JSON.stringify(config)): a fresh structure with the same strings,
\* booleans, arrays and objects; a property whose value is undefined is not
\* written (Null stands for the missing and for the undefined property alike)
jsonCloneWorkflow(workflow) ==
    [id |-> workflow.id, absent |-> workflow.absent, name |-> workflow.name,
     description |-> workflow.description, version |-> workflow.version,
     initialPhase |-> workflow.initialPhase,
     phases |-> [i \in 1..Len(workflow.phases) |-> workflow.phases[i]],
     transitions |-> [i \in 1..Len(workflow.transitions) |-> workflow.transitions[i]],
     globalSettings |-> workflow.globalSettings, metadata |-> workflow.metadata]

jsonClone(config) ==
    [version |-> config.version,
     workflows |-> [i \in 1..Len(config.workflows) |-> jsonCloneWorkflow(config.workflows[i])],
     environments |-> config.environments,
     defaultWorkflow |-> config.defaultWorkflow,
     defaultEnvironment |-> config.defaultEnvironment,
     metadata |-> config.metadata]

\* slip: a workflow without globalSettings is left without
applyOverrides_existingOnly(workflow, overrides) ==
    [workflow EXCEPT !.globalSettings =
        IF @ # Null THEN mergeWorkflowSettings(@, overrides) ELSE @]

\* the callback of merged.workflows.map(...)
applyOverrides(workflow, overrides) ==
    [workflow EXCEPT !.globalSettings =
        IF @ # Null THEN mergeWorkflowSettings(@, overrides) ELSE overrides]

\* slip: the environment metadata is attached before the lookup result is tested
mergeEnvironment_alwaysTags(config, environmentName) ==
    LET environment == findEnvironment(config, environmentName)
    IN [jsonClone(config) EXCEPT !.metadata =
          Some([appliedEnvironment |-> environmentName,
                environmentVariables |-> IF environment = Null THEN Null
                                         ELSE environment[1].variables,
                featureFlags |-> IF environment = Null THEN Null
                                 ELSE environment[1].featureFlags]
               @@ (IF @ = Null THEN EmptyMap ELSE @[1]))]

\* slip: the metadata of the configuration is spread after the environment keys
mergeEnvironment_keepsOldTags(config, environmentName) ==
    LET environment == findEnvironment(config, environmentName)
    IN IF environment = Null THEN config
       ELSE LET merged == jsonClone(config)
            IN [merged EXCEPT
                  !.workflows =
                      IF environment[1].overrides # Null
                      THEN [i \in 1..Len(@) |-> applyOverrides(@[i], environment[1].overrides)]
                      ELSE @,
                  !.metadata =
                      Some((IF @ = Null THEN EmptyMap ELSE @[1])
                           @@ [appliedEnvironment |-> environmentName,
                               environmentVariables |-> environment[1].variables,
                               featureFlags |-> environment[1].featureFlags])]

mergeEnvironment(config, environmentName) ==
    LET environment == findEnvironment(config, environmentName)
    IN IF environment = Null THEN config
       ELSE LET merged == jsonClone(config)
            IN [merged EXCEPT
                  !.workflows =
                      IF environment[1].overrides # Null
                      THEN [i \in 1..Len(@) |-> applyOverrides(@[i], environment[1].overrides)]
                      ELSE @,
                  !.metadata =
                      Some([appliedEnvironment |-> environmentName,
                            environmentVariables |-> environment[1].variables,
                            featureFlags |-> environment[1].featureFlags]
                           @@ (IF @ = Null THEN EmptyMap ELSE @[1]))]

(***************************************************************************)
(* The configurations handed to the merger, drawn from families that each  *)
(* vary one part of a configuration.                                       *)
(***************************************************************************)
SeqsUpTo(S, n) == UNION {[1..k -> S] : k \in 0..n}

NewSettings ==
    [requireApprovalForTransitions |-> Null, defaultApprovers |-> Null,
     notificationChannels |-> Null, timeoutSettings |-> Null, integrations |-> Null]

NewMergeWorkflow(id, name) ==
    [id |-> id, absent |-> {}, name |-> name, description |-> Null, version |-> "1.0.0",
     initialPhase |-> "p1", phases |-> <<NewPhase("p1")>>, transitions |-> <<>>,
     globalSettings |-> Null, metadata |-> Null]

NewEnvironment(name) ==
    [name |-> name, description |-> Null, overrides |-> Null,
     featureFlags |-> Null, variables |-> Null]

NewMergeConfig(workflows) ==
    [version |-> Some("1.0.0"), workflows |-> workflows, environments |-> Null,
     defaultWorkflow |-> Null, defaultEnvironment |-> Null, metadata |-> Null]

MergeWorkflowIds == {"a", "b", "c"}

EnvironmentNames == {"dev", "prod"}

SettingsA ==
    [NewSettings EXCEPT !.requireApprovalForTransitions = Some(TRUE),
                        !.defaultApprovers = Some(<<"u1">>),
                        !.timeoutSettings = Some([phaseTimeout |-> "7 days"])]

SettingsB ==
    [NewSettings EXCEPT !.requireApprovalForTransitions = Some(FALSE),
                        !.notificationChannels = Some(<<"c1">>),
                        !.timeoutSettings = Some([phaseTimeout |-> "14 days",
                                                  approvalTimeout |-> "24 hours"])]

\* a block that carries both timeoutSettings and integrations
SettingsC ==
    [NewSettings EXCEPT !.defaultApprovers = Some(<<"u2">>),
                        !.timeoutSettings = Some([approvalTimeout |-> "48 hours"]),
                        !.integrations = Some([slackEnabled |-> TRUE])]

AllSettings ==
    {[requireApprovalForTransitions |-> r, defaultApprovers |-> a,
      notificationChannels |-> n, timeoutSettings |-> t, integrations |-> g] :
       r \in {Null, Some(TRUE), Some(FALSE)},
       a \in {Null, Some(<<>>), Some(<<"u1">>)},
       n \in {Null, Some(<<>>), Some(<<"c1">>)},
       t \in {Null, Some([phaseTimeout |-> "7 days"]),
              Some([phaseTimeout |-> "14 days", taskTimeout |-> "24 hours"])},
       g \in {Null, Some([slackEnabled |-> TRUE]),
              Some([slackEnabled |-> FALSE, githubEnabled |-> TRUE])}}

\* workflow lists: ids may repeat, within a list and across the two lists
ListedWorkflows ==
    {[NewMergeWorkflow(id, v.name) EXCEPT !.metadata = v.metadata] :
       id \in MergeWorkflowIds,
       v \in {[name |-> "first", metadata |-> Some([owner |-> "o1"])],
              [name |-> "second", metadata |-> Some([team |-> "t1"])]}}

WorkflowListInputs ==
    {<<NewMergeConfig(b), NewMergeConfig(o)>> :
       b \in SeqsUpTo(ListedWorkflows, MaxMergeWorkflows),
       o \in SeqsUpTo(ListedWorkflows, MaxMergeWorkflows)}

\* scalar fields: missing, empty or a value
ScalarConfigs ==
    {[NewMergeConfig(<<NewMergeWorkflow("a", "first")>>) EXCEPT
        !.version = v, !.defaultWorkflow = w, !.defaultEnvironment = e] :
       v \in {Null, Some(""), Some("1.0.0"), Some("2.0.0")},
       w \in {Null, Some(""), Some("a"), Some("b")},
       e \in {Null, Some(""), Some("dev"), Some("prod")}}

ScalarInputs == ScalarConfigs \X ScalarConfigs

\* one workflow on each side: the required properties vary together, the
\* optional ones one by one
WorkflowVariants ==
    {[NewMergeWorkflow(id, r.name) EXCEPT
        !.version = r.version, !.initialPhase = r.initialPhase, !.phases = r.phases,
        !.transitions = r.transitions, !.description = d, !.globalSettings = g,
        !.metadata = m] :
       id \in {"a", "b"},
       r \in {[name |-> "first", version |-> "1.0.0", initialPhase |-> "p1",
               phases |-> <<NewPhase("p1")>>, transitions |-> <<>>],
              [name |-> "second", version |-> "2.0.0", initialPhase |-> "p2",
               phases |-> <<NewPhase("p2"), NewPhase("p1")>>,
               transitions |-> <<NewTransition("p2", "p1")>>]},
       d \in {Null, Some("about")},
       g \in {Null, Some(SettingsA), Some(SettingsB)},
       m \in {Null, Some([owner |-> "o1"]), Some([owner |-> "o2", team |-> "t1"])}}

WorkflowInputs ==
    {<<NewMergeConfig(<<b>>), NewMergeConfig(<<o>>)>> :
       b \in {w \in WorkflowVariants : w.id = "a"}, o \in WorkflowVariants}

SettingsInputs ==
    {<<NewMergeConfig(<<[NewMergeWorkflow("a", "first") EXCEPT !.globalSettings = b]>>),
       NewMergeConfig(<<[NewMergeWorkflow("a", "second") EXCEPT !.globalSettings = o]>>)>> :
       b \in {Null} \cup {Some(x) : x \in AllSettings},
       o \in {Null} \cup {Some(x) : x \in AllSettings}}

EnvironmentVariants ==
    {[NewEnvironment(name) EXCEPT
        !.overrides = v.overrides, !.featureFlags = v.featureFlags,
        !.variables = v.variables] :
       name \in EnvironmentNames,
       v \in {[overrides |-> Null, featureFlags |-> Null, variables |-> Null],
              [overrides |-> Some(SettingsA), featureFlags |-> Some([autoApproval |-> TRUE]),
               variables |-> Some([LOG_LEVEL |-> "info"])],
              [overrides |-> Some(SettingsB),
               featureFlags |-> Some([autoApproval |-> FALSE, beta |-> TRUE]),
               variables |-> Some([LOG_LEVEL |-> "debug", REGION |-> "eu"])],
              [overrides |-> Null, featureFlags |-> Some([beta |-> FALSE]),
               variables |-> Null],
              [overrides |-> Some(SettingsC), featureFlags |-> Null, variables |-> Null]}}

EnvironmentLists ==
    {Null} \cup {Some(l) : l \in SeqsUpTo(EnvironmentVariants, MaxEnvironments)}

EnvironmentInputs ==
    {<<[NewMergeConfig(<<NewMergeWorkflow("a", "first")>>) EXCEPT !.environments = b],
       [NewMergeConfig(<<NewMergeWorkflow("a", "first")>>) EXCEPT !.environments = o]>> :
       b \in EnvironmentLists, o \in EnvironmentLists}

\* configurations an environment is applied to
AppliedConfigs ==
    {[NewMergeConfig(w) EXCEPT !.environments = e, !.metadata = m] :
       w \in SeqsUpTo({[NewMergeWorkflow(id, "first") EXCEPT !.globalSettings = g] :
                         id \in {"a", "b"},
                         g \in {Null, Some(NewSettings), Some(SettingsA)}},
                      MaxMergeWorkflows),
       e \in EnvironmentLists,
       m \in {Null, Some([owner |-> "o1"]), Some([appliedEnvironment |-> "old"])}}

AppliedInputs == {<<c, NewMergeConfig(<<>>)>> : c \in AppliedConfigs}

\* workflows whose references resolve (the first three) and workflows with a
\* dangling nextPhases id, initialPhase, task dependency or transition target
IntegrityShapes ==
    {[initialPhase |-> "p1", phases |-> <<NewPhase("p1")>>, transitions |-> <<>>],
     [initialPhase |-> "p2",
      phases |-> <<[NewPhase("p2") EXCEPT !.nextPhases = <<"p1">>], NewPhase("p1")>>,
      transitions |-> <<NewTransition("p2", "p1")>>],
     [initialPhase |-> "p1",
      phases |-> <<[NewPhase("p1") EXCEPT !.nextPhases = <<"p2">>],
                   [NewPhase("p2") EXCEPT
                      !.tasks = <<NewTask("t1"),
                                  [NewTask("t2") EXCEPT !.dependencies = <<"t1">>]>>]>>,
      transitions |-> <<>>],
     [initialPhase |-> "p1",
      phases |-> <<[NewPhase("p1") EXCEPT !.nextPhases = <<"zz">>]>>,
      transitions |-> <<>>],
     [initialPhase |-> "p2", phases |-> <<NewPhase("p1")>>, transitions |-> <<>>],
     [initialPhase |-> "p1",
      phases |-> <<[NewPhase("p1") EXCEPT
                      !.tasks = <<[NewTask("t1") EXCEPT !.dependencies = <<"tX">>]>>]>>,
      transitions |-> <<>>],
     [initialPhase |-> "p1", phases |-> <<NewPhase("p1")>>,
      transitions |-> <<NewTransition("p1", "p2")>>]}

IntegrityWorkflows ==
    {[NewMergeWorkflow(id, "first") EXCEPT
        !.initialPhase = shape.initialPhase, !.phases = shape.phases,
        !.transitions = shape.transitions] :
       id \in {"a", "b"}, shape \in IntegrityShapes}

IntegrityInputs ==
    {<<NewMergeConfig(b), NewMergeConfig(o)>> :
       b \in SeqsUpTo(IntegrityWorkflows, MaxMergeWorkflows),
       o \in {<<>>} \cup {<<workflow>> : workflow \in IntegrityWorkflows}}

MergeInputs ==
    WorkflowListInputs \cup ScalarInputs \cup WorkflowInputs \cup SettingsInputs
    \cup EnvironmentInputs \cup AppliedInputs \cup IntegrityInputs

\* configMerger.merge(base, override)
Merge ==
    /\ stage = "merge" /\ ret = NoRet
    /\ ret' = [op |-> "merge", result |-> merge(base, override)]
    /\ UNCHANGED <<calls, frame, heap, base, override, input, stage, vres, pmConfig>>

\* configMerger.mergeEnvironment(base, environmentName)
MergeEnvironment ==
    /\ stage = "merge" /\ ret = NoRet
    /\ \E environmentName \in EnvironmentNames \cup {"staging"} :
         ret' = [op |-> "mergeEnvironment", environmentName |-> environmentName,
                 result |-> mergeEnvironment(base, environmentName)]
    /\ UNCHANGED <<calls, frame, heap, base, override, input, stage, vres, pmConfig>>

\* configMerger.mergeEnvironment(result, environmentName) on the result of the
\* call before, with the same name
MergeEnvironmentAgain ==
    /\ stage = "merge"
    /\ ret.op = "mergeEnvironment"
    /\ ret' = [op |-> "mergeEnvironmentAgain", environmentName |-> ret.environmentName,
               first |-> ret.result,
               result |-> mergeEnvironment(ret.result, ret.environmentName)]
    /\ UNCHANGED <<calls, frame, heap, base, override, input, stage, vres, pmConfig>>

InitMerge ==
    /\ input = EmptyConfig
    /\ stage = "merge"
    /\ vres = NoResult
    /\ pmConfig = Null
    /\ ret = NoRet
    /\ \E pair \in MergeInputs : base = pair[1] /\ override = pair[2]
    /\ calls = 0
    /\ frame = NoFrame
    /\ heap = EmptyHeap

NextMerge == Merge \/ MergeEnvironment \/ MergeEnvironmentAgain

SpecMerge == InitMerge /\ [][NextMerge]_vars

(***************************************************************************)
(* A session with one PhaseManager: setConfig is called up to MaxSets      *)
(* times with configurations drawn from SessionConfigs, and queries are    *)
(* asked before, between and after, any number of times.                   *)
(***************************************************************************)
MaxSets == 2

PhaseWith(id, nextPhases) == [NewPhase(id) EXCEPT !.nextPhases = nextPhases]

\* phases and transitions of a workflow: a single phase, an implicit edge, an
\* unreferenced phase, an explicit edge beside the implicit one, and a
\* dangling nextPhases id
SessionShapes ==
    {<<<<PhaseWith("p1", <<>>)>>, <<>>>>,
     <<<<PhaseWith("p1", <<"p2">>), PhaseWith("p2", <<>>)>>, <<>>>>,
     <<<<PhaseWith("p1", <<>>), PhaseWith("p2", <<>>)>>, <<>>>>,
     <<<<PhaseWith("p1", <<"p2">>), PhaseWith("p2", <<"p1">>)>>,
       <<NewTransition("p1", "p2")>>>>,
     <<<<PhaseWith("p1", <<"zz">>)>>, <<>>>>}

SessionWorkflows ==
    {[NewWorkflow(id, "p1") EXCEPT !.phases = shape[1], !.transitions = shape[2]] :
       id \in WorkflowIds, shape \in SessionShapes}

SessionConfigs ==
    {[EmptyConfig EXCEPT !.workflows = workflows] :
       workflows \in SeqsUpTo(SessionWorkflows, MaxWorkflows)}

\* the calls a client can make: the operation and its arguments
Queries ==
    {[op |-> op, workflowId |-> workflowId, phaseId |-> phaseId, to |-> ""] :
       op \in {"getPhase", "getAvailableTransitions", "validatePhaseCompletion"},
       workflowId \in WorkflowIds, phaseId \in RefIds}
    \cup {[op |-> "canTransition", workflowId |-> workflowId, phaseId |-> from, to |-> to] :
            workflowId \in WorkflowIds, from \in RefIds, to \in RefIds}
    \cup {[op |-> op, workflowId |-> workflowId, phaseId |-> "", to |-> ""] :
            op \in {"getAllPhases", "getWorkflow"}, workflowId \in WorkflowIds}

\* the value a query returns
Answer(current, query) ==
    CASE query.op = "getPhase" -> getPhase(current, query.workflowId, query.phaseId)
      [] query.op = "getAvailableTransitions" ->
           getAvailableTransitions(current, query.workflowId, query.phaseId)
      [] query.op = "canTransition" ->
           canTransition(current, query.workflowId, query.phaseId, query.to)
      [] query.op = "validatePhaseCompletion" ->
           validatePhaseCompletion(current, query.workflowId, query.phaseId)
      [] query.op = "getAllPhases" -> getAllPhases(current, query.workflowId)
      [] query.op = "getWorkflow" -> getWorkflow(current, query.workflowId)

\* slip: the implicit transitions are pushed onto the workflow's own list
storedTransitions_pushedInPlace(workflow, pushed) == workflow.transitions \o pushed

\* the workflow's transitions list after getAvailableTransitions has run:
\* `filter` returned a new array and the implicit transitions were pushed onto
\* that array, so the list itself holds what it held
storedTransitions(workflow, pushed) == workflow.transitions

\* the current configuration after getAvailableTransitions(workflowId,
\* currentPhaseId) has run to its end
afterGetAvailableTransitions(current, workflowId, currentPhaseId) ==
    IF getPhase(current, workflowId, currentPhaseId) = Null THEN current
    ELSE LET w == Min({i \in 1..Len(current[1].workflows) :
                         current[1].workflows[i].id = workflowId})
             workflow == current[1].workflows[w]
             phase == getPhase(current, workflowId, currentPhaseId)[1]
             availableTransitions == explicitTransitions(workflow, currentPhaseId)
             pushed == implicitTransitions(
                           phase.nextPhases, currentPhaseId,
                           {availableTransitions[i].to : i \in 1..Len(availableTransitions)})
         IN Some([current[1] EXCEPT
                    !.workflows[w].transitions = storedTransitions(workflow, pushed)])

\* the current configuration after a query: only getAvailableTransitions, and
\* the two queries that call it, write to an array at all
configAfter(current, query) ==
    IF query.op \in {"getAvailableTransitions", "canTransition", "validatePhaseCompletion"}
    THEN afterGetAvailableTransitions(current, query.workflowId, query.phaseId)
    ELSE current

InSession == stage \in {"session", "set"}

\* the caller validates a configuration and hands it to setConfig
ReplaceConfig ==
    /\ InSession
    /\ calls < MaxSets
    /\ \E config \in SessionConfigs :
         /\ input' = config
         /\ vres' = validate(config)
         /\ pmConfig' = Some(config)
    /\ stage' = "set"
    /\ calls' = calls + 1
    /\ ret' = NoRet
    /\ UNCHANGED <<frame, heap, base, override>>

\* a query is made; ret keeps its answer
Ask ==
    /\ InSession
    /\ \E query \in Queries :
         /\ ret' = [op |-> query.op, workflowId |-> query.workflowId,
                    phaseId |-> query.phaseId, to |-> query.to,
                    result |-> Answer(pmConfig, query),
                    first |-> Answer(pmConfig, query), repeated |-> FALSE]
         /\ pmConfig' = configAfter(pmConfig, query)
    /\ UNCHANGED <<calls, frame, heap, base, override, input, stage, vres>>

\* the query in ret is made once more; `first` keeps the earlier answer
AskAgain ==
    /\ InSession
    /\ ret # NoRet
    /\ ~ret.repeated
    /\ ret' = [ret EXCEPT !.result = Answer(pmConfig, ret), !.repeated = TRUE]
    /\ pmConfig' = configAfter(pmConfig, ret)
    /\ UNCHANGED <<calls, frame, heap, base, override, input, stage, vres>>

InitSession ==
    /\ input = EmptyConfig
    /\ stage = "session"
    /\ vres = NoResult
    /\ pmConfig = Null
    /\ ret = NoRet
    /\ base = Null
    /\ override = Null
    /\ calls = 0
    /\ frame = NoFrame
    /\ heap = EmptyHeap

NextSession == ReplaceConfig \/ Ask \/ AskAgain

SpecSession == InitSession /\ [][NextSession]_vars

(***************************************************************************)
(* PhaseManager with a query in flight.  getAvailableTransitions and       *)
(* validatePhaseCompletion read `this.config` at several points; each      *)
(* action below is the code between two such reads, `frame` holds the      *)
(* locals of the call in flight, and setConfig may run between the steps   *)
(* (what concurrent callers would make possible).                          *)
(***************************************************************************)
InterleavedConfigs ==
    {[EmptyConfig EXCEPT !.workflows = <<workflow>>] : workflow \in SessionWorkflows}

\* lines 464-473 of getAvailableTransitions: the null test and the lookup of
\* the workflow in the configuration the reference holds now
lookupWorkflow(current, workflowId) ==
    IF current = Null THEN Null ELSE findWorkflow(current[1], workflowId)

\* slip: nextPhases is never consulted
availableFrom_explicitOnly(current, workflow, workflowId, currentPhaseId) ==
    IF getPhase(current, workflowId, currentPhaseId) = Null THEN <<>>
    ELSE explicitTransitions(workflow, currentPhaseId)

\* lines 475-503 of getAvailableTransitions: getPhase reads the reference
\* again; the explicit transitions are those of the workflow found before
availableFrom(current, workflow, workflowId, currentPhaseId) ==
    LET phase == getPhase(current, workflowId, currentPhaseId) IN
      IF phase = Null THEN <<>>
      ELSE LET availableTransitions == explicitTransitions(workflow, currentPhaseId)
               explicitTransitionTargets ==
                   {availableTransitions[i].to : i \in 1..Len(availableTransitions)}
           IN availableTransitions
              \o implicitTransitions(phase[1].nextPhases, currentPhaseId,
                                     explicitTransitionTargets)

\* lines 558-592 of validatePhaseCompletion, for the phase found before and
\* the transitions getAvailableTransitions returned
completionResult(phase, availableTransitions, workflowId, phaseId) ==
    ValidationResult(
        <<>>,
        exitConditionWarnings(phase, workflowId, phaseId)
        \o (IF Len(availableTransitions) = 0 /\ Len(phase.nextPhases) = 0
            THEN <<[path |-> "/workflows/" \o workflowId \o "/phases/" \o phaseId,
                    message |-> <<"Phase has no available transitions or next phases">>,
                    type |-> "best-practice"]>>
            ELSE <<>>))

Returned(op, workflowId, phaseId, result, started, overlapped) ==
    [op |-> op, workflowId |-> workflowId, phaseId |-> phaseId, to |-> "",
     result |-> result, started |-> started, overlapped |-> overlapped]

\* setConfig(config), between calls or between two steps of a call; the frame
\* notes that the reference changed under the call in flight
InterleavedSetConfig ==
    /\ stage = "interleaved"
    /\ calls < MaxSets
    /\ \E config \in InterleavedConfigs :
         /\ input' = config
         /\ pmConfig' = Some(config)
    /\ calls' = calls + 1
    /\ frame' = IF frame = NoFrame THEN frame ELSE [frame EXCEPT !.overlapped = TRUE]
    /\ UNCHANGED <<heap, base, override, stage, vres, ret>>

\* getAvailableTransitions(workflowId, phaseId) up to the call of getPhase
BeginGetAvailableTransitions ==
    /\ stage = "interleaved"
    /\ frame = NoFrame
    /\ \E workflowId \in WorkflowIds, phaseId \in RefIds :
         LET workflow == lookupWorkflow(pmConfig, workflowId) IN
           IF workflow = Null
           THEN /\ ret' = Returned("getAvailableTransitions", workflowId, phaseId,
                                   <<>>, pmConfig, FALSE)
                /\ frame' = NoFrame
           ELSE /\ ret' = NoRet
                /\ frame' = [pc |-> "getPhase", op |-> "getAvailableTransitions",
                             workflowId |-> workflowId, phaseId |-> phaseId,
                             workflow |-> workflow[1], phase |-> Null,
                             started |-> pmConfig, overlapped |-> FALSE]
    /\ UNCHANGED <<calls, heap, base, override, input, stage, vres, pmConfig>>

\* getAvailableTransitions from the call of getPhase to its return
FinishGetAvailableTransitions ==
    /\ frame # NoFrame
    /\ frame.op = "getAvailableTransitions"
    /\ frame.pc = "getPhase"
    /\ ret' = Returned(frame.op, frame.workflowId, frame.phaseId,
                       availableFrom(pmConfig, frame.workflow, frame.workflowId,
                                     frame.phaseId),
                       frame.started, frame.overlapped)
    /\ frame' = NoFrame
    /\ UNCHANGED <<calls, heap, base, override, input, stage, vres, pmConfig>>

\* validatePhaseCompletion(workflowId, phaseId) up to the call of
\* getAvailableTransitions: the null test and getPhase
BeginValidatePhaseCompletion ==
    /\ stage = "interleaved"
    /\ frame = NoFrame
    /\ \E workflowId \in WorkflowIds, phaseId \in RefIds :
         LET phase == getPhase(pmConfig, workflowId, phaseId) IN
           IF phase = Null
           THEN /\ ret' = Returned("validatePhaseCompletion", workflowId, phaseId,
                                   validatePhaseCompletion(pmConfig, workflowId, phaseId),
                                   pmConfig, FALSE)
                /\ frame' = NoFrame
           ELSE /\ ret' = NoRet
                /\ frame' = [pc |-> "getAvailableTransitions",
                             op |-> "validatePhaseCompletion",
                             workflowId |-> workflowId, phaseId |-> phaseId,
                             workflow |-> Null, phase |-> phase,
                             started |-> pmConfig, overlapped |-> FALSE]
    /\ UNCHANGED <<calls, heap, base, override, input, stage, vres, pmConfig>>

\* validatePhaseCompletion inside getAvailableTransitions, up to its call of
\* getPhase; without the workflow the transitions are [] and the call returns
ContinueValidatePhaseCompletion ==
    /\ frame # NoFrame
    /\ frame.op = "validatePhaseCompletion"
    /\ frame.pc = "getAvailableTransitions"
    /\ LET workflow == lookupWorkflow(pmConfig, frame.workflowId) IN
         IF workflow = Null
         THEN /\ ret' = Returned(frame.op, frame.workflowId, frame.phaseId,
                                 completionResult(frame.phase[1], <<>>,
                                                  frame.workflowId, frame.phaseId),
                                 frame.started, frame.overlapped)
              /\ frame' = NoFrame
         ELSE /\ ret' = NoRet
              /\ frame' = [frame EXCEPT !.pc = "getPhase", !.workflow = workflow]
    /\ UNCHANGED <<calls, heap, base, override, input, stage, vres, pmConfig>>

\* validatePhaseCompletion from getPhase inside getAvailableTransitions to
\* its own return
FinishValidatePhaseCompletion ==
    /\ frame # NoFrame
    /\ frame.op = "validatePhaseCompletion"
    /\ frame.pc = "getPhase"
    /\ ret' = Returned(frame.op, frame.workflowId, frame.phaseId,
                       completionResult(
                           frame.phase[1],
                           availableFrom(pmConfig, frame.workflow[1], frame.workflowId,
                                         frame.phaseId),
                           frame.workflowId, frame.phaseId),
                       frame.started, frame.overlapped)
    /\ frame' = NoFrame
    /\ UNCHANGED <<calls, heap, base, override, input, stage, vres, pmConfig>>

InitInterleaved ==
    /\ input = EmptyConfig
    /\ stage = "interleaved"
    /\ vres = NoResult
    /\ pmConfig = Null
    /\ ret = NoRet
    /\ base = Null
    /\ override = Null
    /\ calls = 0
    /\ frame = NoFrame
    /\ heap = EmptyHeap

NextInterleaved ==
    \/ InterleavedSetConfig
    \/ BeginGetAvailableTransitions \/ FinishGetAvailableTransitions
    \/ BeginValidatePhaseCompletion \/ ContinueValidatePhaseCompletion
    \/ FinishValidatePhaseCompletion

SpecInterleaved == InitInterleaved /\ [][NextInterleaved]_vars

(***************************************************************************)
(* ConfigLoader.loadFromString.  A text is known by what yaml.load makes   *)
(* of it: a YAMLException with its message, no document at all (an empty   *)
(* text or one of comments only loads as undefined), a scalar, or a        *)
(* mapping, which is a configuration document.                             *)
(***************************************************************************)
MalformedText(problem) == [kind |-> "malformed", problem |-> problem]

EmptyText == [kind |-> "empty"]

ScalarText == [kind |-> "scalar"]

MappingText(document) == [kind |-> "mapping", document |-> document]

\* yaml.load(content): throws, or returns the document
yamlLoad(content) ==
    IF content.kind = "malformed"
    THEN [threw |-> TRUE, name |-> "YAMLException", message |-> <<content.problem>>]
    ELSE [threw |-> FALSE,
          value |-> CASE content.kind = "empty" -> [type |-> "undefined"]
                      [] content.kind = "scalar" -> [type |-> "number"]
                      [] content.kind = "mapping" ->
                           [type |-> "object", config |-> content.document]]

\* this.validate(config) on whatever yaml.load returned: `config.workflows`
\* (line 101) throws on undefined, finds nothing on a scalar
validateLoaded(value) ==
    CASE value.type = "undefined" ->
           [threw |-> TRUE, name |-> "TypeError",
            message |-> <<"Cannot read properties of undefined (reading 'workflows')">>]
      [] value.type = "number" ->
           [threw |-> FALSE,
            result |-> ValidationResult(<<SchemaError("/", "type", "object")>>, <<>>)]
      [] value.type = "object" ->
           [threw |-> FALSE, result |-> validate(value.config)]

\* parts.join(separator), each element itself a sequence of parts
RECURSIVE Join(_, _)
Join(items, separator) ==
    IF items = <<>> THEN <<>>
    ELSE IF Len(items) = 1 THEN items[1]
    ELSE items[1] \o <<separator>> \o Join(Tail(items), separator)

\* errors.map((e) => `${e.path}: ${e.message}`).join(', ') || 'Unknown validation error'
errorMessages(errors) ==
    LET joined == Join([i \in 1..Len(errors) |-> <<errors[i].path, ": ">> \o errors[i].message],
                       ", ")
    IN IF joined = <<>> THEN <<"Unknown validation error">> ELSE joined

Threw(name, message, steps) ==
    [outcome |-> "threw", name |-> name, message |-> message, steps |-> steps]

\* loadFromString(content): what it throws or returns, the calls it made in
\* order, and the warnings it logged
loadFromString(content) ==
    LET parsed == yamlLoad(content) IN
      IF parsed.threw
      THEN Threw("Error", <<"Invalid YAML syntax: ">> \o parsed.message, <<"yaml.load">>)
      ELSE LET validationResult == validateLoaded(parsed.value) IN
        IF validationResult.threw
        THEN Threw(validationResult.name, validationResult.message,
                   <<"yaml.load", "validate">>)
        ELSE IF ~validationResult.result.valid
        THEN Threw("Error",
                   <<"Invalid configuration: ">> \o errorMessages(validationResult.result.errors),
                   <<"yaml.load", "validate">>)
        ELSE [outcome |-> "returned", config |-> parsed.value.config,
              steps |-> <<"yaml.load", "validate">>,
              warned |-> [i \in 1..Len(validationResult.result.warnings) |->
                            <<"Configuration warning at ",
                              validationResult.result.warnings[i].path, ": ">>
                            \o validationResult.result.warnings[i].message]]

LoadWorkflows ==
    SessionWorkflows
    \cup {[NewWorkflow("w1", "") EXCEPT !.absent = {"initialPhase"},
                                        !.phases = <<PhaseWith("p1", <<>>)>>],
          [NewWorkflow("w1", "p1") EXCEPT !.absent = {"phases"}]}

LoadDocuments ==
    {[workflows |-> workflows, absent |-> meta[1], metadata |-> meta[2]] :
       workflows \in SeqsUpTo(LoadWorkflows, MaxWorkflows),
       meta \in {<<{"metadata"}, {}>>, <<{}, {"legacyMode"}>>}}

LoadTexts ==
    {MalformedText("bad indentation of a mapping entry"),
     MalformedText("end of the stream or a document separator is expected"),
     EmptyText, ScalarText}
    \cup {MappingText(document) : document \in LoadDocuments}

\* configLoader.loadFromString(input)
LoadFromString ==
    /\ stage = "load" /\ ret = NoRet
    /\ ret' = [op |-> "loadFromString", result |-> loadFromString(input)]
    /\ UNCHANGED <<calls, frame, heap, base, override, input, stage, vres, pmConfig>>

InitLoad ==
    /\ input \in LoadTexts
    /\ stage = "load"
    /\ vres = NoResult
    /\ pmConfig = Null
    /\ ret = NoRet
    /\ base = Null
    /\ override = Null
    /\ calls = 0
    /\ frame = NoFrame
    /\ heap = EmptyHeap

NextLoad == LoadFromString

SpecLoad == InitLoad /\ [][NextLoad]_vars

(***************************************************************************)
(* ConfigMerger on objects with identity.  The heap maps an address to the *)
(* object stored there.  An object has primitive properties (prims) and    *)
(* properties that hold another object (refs: property name -> address); a *)
(* property that is missing or undefined is in neither.  An array of       *)
(* objects has its elements under "0", "1", ...; an array of strings, of   *)
(* phases or of transitions is one object that keeps its elements as one   *)
(* value.  Two properties share an object when they hold one address, and  *)
(* an assignment to a property changes the object at its address.          *)
(***************************************************************************)
Object(prims, refs) == [prims |-> prims, refs |-> refs]

\* the refs of an object literal: each named property with the address it is
\* given, left out when that is undefined
Refs(properties) ==
    [name \in {p[1] : p \in {q \in properties : q[2] # Null}} |->
       (CHOOSE p \in properties : p[1] = name)[2][1]]

\* the objects of several disjoint fragments
Fuse(fragments) ==
    [at \in UNION {DOMAIN f : f \in fragments} |->
       (CHOOSE f \in fragments : at \in DOMAIN f)[at]]

\* object.name, Null when missing
Ref(h, at, name) == IF name \in DOMAIN h[at].refs THEN Some(h[at].refs[name]) ELSE Null

\* the elements of an array of objects
Items(h, array) == [i \in 1..h[array].prims.length |-> h[array].refs[Idx(i)]]

NewArray(at, items) ==
    at :> Object([length |-> Len(items)],
                 [name \in {Idx(i) : i \in 1..Len(items)} |->
                    items[CHOOSE i \in 1..Len(items) : Idx(i) = name]])

RECURSIVE Reach(_, _, _)
Reach(h, seen, frontier) ==
    IF frontier = {} THEN seen
    ELSE LET next == UNION {{h[at].refs[name] : name \in DOMAIN h[at].refs} : at \in frontier}
         IN Reach(h, seen \cup frontier, next \ (seen \cup frontier))

\* the objects reachable from the roots, roots included
Reachable(h, roots) == Reach(h, {}, roots)

(* The input configurations as objects, each property under its path. *)
LayList(at, items) == at :> Object([items |-> items], Refs({}))

LayMap(at, map) == at :> Object(map, Refs({}))

LaySettings(at, settings) ==
    Fuse({at :> Object(
                  [requireApprovalForTransitions |-> settings.requireApprovalForTransitions],
                  Refs({<<name, IF settings[name] = Null THEN Null
                                ELSE Some(at \o "." \o name)>> :
                          name \in {"defaultApprovers", "notificationChannels",
                                    "timeoutSettings", "integrations"}}))}
         \cup {LayList(at \o "." \o name, settings[name][1]) :
                 name \in {n \in {"defaultApprovers", "notificationChannels"} :
                             settings[n] # Null}}
         \cup {LayMap(at \o "." \o name, settings[name][1]) :
                 name \in {n \in {"timeoutSettings", "integrations"} : settings[n] # Null}})

LayWorkflow(at, workflow) ==
    Fuse({at :> Object(
                  [id |-> workflow.id, absent |-> workflow.absent, name |-> workflow.name,
                   description |-> workflow.description, version |-> workflow.version,
                   initialPhase |-> workflow.initialPhase],
                  Refs({<<"phases", Some(at \o ".phases")>>,
                        <<"transitions", Some(at \o ".transitions")>>,
                        <<"globalSettings", IF workflow.globalSettings = Null THEN Null
                                            ELSE Some(at \o ".globalSettings")>>,
                        <<"metadata", IF workflow.metadata = Null THEN Null
                                      ELSE Some(at \o ".metadata")>>})),
          LayList(at \o ".phases", workflow.phases),
          LayList(at \o ".transitions", workflow.transitions)}
         \cup (IF workflow.globalSettings = Null THEN {}
               ELSE {LaySettings(at \o ".globalSettings", workflow.globalSettings[1])})
         \cup (IF workflow.metadata = Null THEN {}
               ELSE {LayMap(at \o ".metadata", workflow.metadata[1])}))

LayEnvironment(at, env) ==
    Fuse({at :> Object(
                  [name |-> env.name, description |-> env.description],
                  Refs({<<name, IF env[name] = Null THEN Null ELSE Some(at \o "." \o name)>> :
                          name \in {"overrides", "featureFlags", "variables"}}))}
         \cup (IF env.overrides = Null THEN {}
               ELSE {LaySettings(at \o ".overrides", env.overrides[1])})
         \cup {LayMap(at \o "." \o name, env[name][1]) :
                 name \in {n \in {"featureFlags", "variables"} : env[n] # Null}})

LayConfig(at, config) ==
    Fuse({at :> Object(
                  [version |-> config.version, defaultWorkflow |-> config.defaultWorkflow,
                   defaultEnvironment |-> config.defaultEnvironment],
                  Refs({<<"workflows", Some(at \o ".workflows")>>,
                        <<"environments", IF config.environments = Null THEN Null
                                          ELSE Some(at \o ".environments")>>,
                        <<"metadata", IF config.metadata = Null THEN Null
                                      ELSE Some(at \o ".metadata")>>})),
          NewArray(at \o ".workflows",
                   [i \in 1..Len(config.workflows) |-> at \o ".workflows." \o Idx(i)])}
         \cup {LayWorkflow(at \o ".workflows." \o Idx(i), config.workflows[i]) :
                 i \in 1..Len(config.workflows)}
         \cup (IF config.environments = Null THEN {}
               ELSE {NewArray(at \o ".environments",
                              [i \in 1..Len(config.environments[1]) |->
                                 at \o ".environments." \o Idx(i)])}
                    \cup {LayEnvironment(at \o ".environments." \o Idx(i),
                                         config.environments[1][i]) :
                            i \in 1..Len(config.environments[1])})
         \cup (IF config.metadata = Null THEN {}
               ELSE {LayMap(at \o ".metadata", config.metadata[1])}))

(* The merger.  A helper returns the address of its result (ref, Null for  *)
(* undefined) and the objects it created (new).                            *)
Result(ref, new) == [ref |-> ref, new |-> new]

\* { ...a, ...b } of two optional objects: a new object
SpreadObject(h, a, b) ==
    Object((IF b = Null THEN EmptyMap ELSE h[b[1]].prims)
           @@ (IF a = Null THEN EmptyMap ELSE h[a[1]].prims),
           (IF b = Null THEN Refs({}) ELSE h[b[1]].refs)
           @@ (IF a = Null THEN Refs({}) ELSE h[a[1]].refs))

mergeMetadataAt(h, base_, override_, at) ==
    IF base_ = Null /\ override_ = Null THEN Result(Null, EmptyHeap)
    ELSE IF base_ = Null THEN Result(override_, EmptyHeap)
    ELSE IF override_ = Null THEN Result(base_, EmptyHeap)
    ELSE Result(Some(at), at :> SpreadObject(h, base_, override_))

mergeWorkflowSettingsAt(h, base_, override_, at) ==
    IF base_ = Null /\ override_ = Null THEN Result(Null, EmptyHeap)
    ELSE IF base_ = Null THEN Result(override_, EmptyHeap)
    ELSE IF override_ = Null THEN Result(base_, EmptyHeap)
    ELSE Result(
           Some(at),
           Fuse({at :> Object(
                         [requireApprovalForTransitions |->
                            Coalesce(h[override_[1]].prims.requireApprovalForTransitions,
                                     h[base_[1]].prims.requireApprovalForTransitions)],
                         Refs({<<"defaultApprovers",
                                 OrArray(Ref(h, override_[1], "defaultApprovers"),
                                         Ref(h, base_[1], "defaultApprovers"))>>,
                               <<"notificationChannels",
                                 OrArray(Ref(h, override_[1], "notificationChannels"),
                                         Ref(h, base_[1], "notificationChannels"))>>,
                               <<"timeoutSettings", Some(at \o ".timeoutSettings")>>,
                               <<"integrations", Some(at \o ".integrations")>>})),
                 (at \o ".timeoutSettings") :>
                     SpreadObject(h, Ref(h, base_[1], "timeoutSettings"),
                                  Ref(h, override_[1], "timeoutSettings")),
                 (at \o ".integrations") :>
                     SpreadObject(h, Ref(h, base_[1], "integrations"),
                                  Ref(h, override_[1], "integrations"))}))

\* { ...base, ...override, globalSettings, metadata }: a new workflow object;
\* its phases and transitions are the arrays override holds
mergeWorkflowAt(h, base_, override_, at) ==
    LET globalSettings ==
            mergeWorkflowSettingsAt(h, Ref(h, base_, "globalSettings"),
                                    Ref(h, override_, "globalSettings"),
                                    at \o ".globalSettings")
        metadata == mergeMetadataAt(h, Ref(h, base_, "metadata"),
                                    Ref(h, override_, "metadata"), at \o ".metadata")
    IN Result(
         Some(at),
         Fuse({at :> Object(
                       [h[override_].prims EXCEPT
                          !.description = IF @ # Null THEN @ ELSE h[base_].prims.description],
                       Refs({<<"phases", Ref(h, override_, "phases")>>,
                             <<"transitions", Ref(h, override_, "transitions")>>,
                             <<"globalSettings", globalSettings.ref>>,
                             <<"metadata", metadata.ref>>})),
               globalSettings.new, metadata.new}))

\* forEach over the base array: Map.set(element[key], element)
RECURSIVE addBase(_, _, _, _)
addBase(h, map, elements, key) ==
    IF elements = <<>> THEN map
    ELSE addBase(h, MapSet(map, h[Head(elements)].prims[key], Head(elements)),
                 Tail(elements), key)

\* overrideWorkflows.forEach: the workflow merged at the j-th override element
\* is a new object
RECURSIVE addOverrideWorkflowsAt(_, _, _, _, _, _)
addOverrideWorkflowsAt(h, workflowMap, workflows, j, at, new) ==
    IF workflows = <<>> THEN [map |-> workflowMap, new |-> new]
    ELSE LET workflow == Head(workflows)
             id == h[workflow].prims.id
         IN IF MapHas(workflowMap, id)
            THEN LET merged == mergeWorkflowAt(new @@ h, MapGet(workflowMap, id), workflow,
                                               at \o "#" \o Idx(j))
                 IN addOverrideWorkflowsAt(h, MapSet(workflowMap, id, merged.ref[1]),
                                           Tail(workflows), j + 1, at,
                                           Fuse({new, merged.new}))
            ELSE addOverrideWorkflowsAt(h, MapSet(workflowMap, id, workflow),
                                        Tail(workflows), j + 1, at, new)

mergeWorkflowsAt(h, baseWorkflows, overrideWorkflows, at) ==
    IF Len(Items(h, overrideWorkflows)) = 0 THEN Result(Some(baseWorkflows), EmptyHeap)
    ELSE LET filled ==
                 addOverrideWorkflowsAt(h, addBase(h, <<>>, Items(h, baseWorkflows), "id"),
                                        Items(h, overrideWorkflows), 1, at, EmptyHeap)
         IN Result(Some(at), Fuse({NewArray(at, MapValues(filled.map)), filled.new}))

\* { ...existing, ...env, overrides, featureFlags, variables }
mergeEnvironmentEntryAt(h, existing, env, at) ==
    LET overrides ==
            mergeWorkflowSettingsAt(h, Ref(h, existing, "overrides"),
                                    Ref(h, env, "overrides"), at \o ".overrides")
    IN Result(
         Some(at),
         Fuse({at :> Object(
                       [h[env].prims EXCEPT
                          !.description = IF @ # Null THEN @ ELSE h[existing].prims.description],
                       Refs({<<"overrides", overrides.ref>>,
                             <<"featureFlags", Some(at \o ".featureFlags")>>,
                             <<"variables", Some(at \o ".variables")>>})),
               overrides.new,
               (at \o ".featureFlags") :>
                   SpreadObject(h, Ref(h, existing, "featureFlags"),
                                Ref(h, env, "featureFlags")),
               (at \o ".variables") :>
                   SpreadObject(h, Ref(h, existing, "variables"), Ref(h, env, "variables"))}))

RECURSIVE addOverrideEnvironmentsAt(_, _, _, _, _, _)
addOverrideEnvironmentsAt(h, envMap, environments, j, at, new) ==
    IF environments = <<>> THEN [map |-> envMap, new |-> new]
    ELSE LET env == Head(environments)
             name == h[env].prims.name
         IN IF MapHas(envMap, name)
            THEN LET merged == mergeEnvironmentEntryAt(new @@ h, MapGet(envMap, name), env,
                                                       at \o "#" \o Idx(j))
                 IN addOverrideEnvironmentsAt(h, MapSet(envMap, name, merged.ref[1]),
                                              Tail(environments), j + 1, at,
                                              Fuse({new, merged.new}))
            ELSE addOverrideEnvironmentsAt(h, MapSet(envMap, name, env),
                                           Tail(environments), j + 1, at, new)

mergeEnvironmentsAt(h, base_, override_, at) ==
    IF base_ = Null /\ override_ = Null THEN Result(Null, EmptyHeap)
    ELSE IF base_ = Null THEN Result(override_, EmptyHeap)
    ELSE IF override_ = Null THEN Result(base_, EmptyHeap)
    ELSE LET filled ==
                 addOverrideEnvironmentsAt(
                     h, addBase(h, <<>>, Items(h, base_[1]), "name"),
                     Items(h, override_[1]), 1, at, EmptyHeap)
         IN Result(Some(at), Fuse({NewArray(at, MapValues(filled.map)), filled.new}))

\* merge(base, override): the address of the new configuration and the heap
\* after the call
mergeAt(h, base_, override_) ==
    LET workflows == mergeWorkflowsAt(h, h[base_].refs.workflows,
                                      h[override_].refs.workflows, "merged.workflows")
        environments == mergeEnvironmentsAt(h, Ref(h, base_, "environments"),
                                            Ref(h, override_, "environments"),
                                            "merged.environments")
        metadata == mergeMetadataAt(h, Ref(h, base_, "metadata"),
                                    Ref(h, override_, "metadata"), "merged.metadata")
    IN [ref |-> "merged",
        heap |->
          Fuse({"merged" :> Object(
                    [version |-> OrString(h[override_].prims.version, h[base_].prims.version),
                     defaultWorkflow |-> OrString(h[override_].prims.defaultWorkflow,
                                                  h[base_].prims.defaultWorkflow),
                     defaultEnvironment |-> OrString(h[override_].prims.defaultEnvironment,
                                                     h[base_].prims.defaultEnvironment)],
                    Refs({<<"workflows", workflows.ref>>,
                          <<"environments", environments.ref>>,
                          <<"metadata", metadata.ref>>})),
                workflows.new, environments.new, metadata.new, h})]

\* slip: no copy is made, `merged` is the argument itself
jsonCloneAt_sameObject(h, root) == [ref |-> root, heap |-> h]

\* JSON.parse(JSON.stringify(config)): a copy of every object reachable from
\* the root, the copies referring to copies
jsonCloneAt(h, root) ==
    [ref |-> "copy:" \o root,
     heap |-> Fuse({("copy:" \o at) :>
                      Object(h[at].prims,
                             [name \in DOMAIN h[at].refs |-> "copy:" \o h[at].refs[name]]) :
                      at \in Reachable(h, {root})}
                   \cup {h})]

\* object.name = value (value Null: the property becomes undefined)
Assign(h, at, name, value) ==
    [h EXCEPT ![at].refs =
       Refs({<<n, Some(@[n])>> : n \in DOMAIN @ \ {name}} \cup {<<name, value>>})]

\* the callback of merged.workflows.map, on each element in turn
RECURSIVE applyOverridesAt(_, _, _, _)
applyOverridesAt(h, workflows, i, overrides) ==
    IF i > Len(workflows) THEN h
    ELSE LET workflow == workflows[i]
             settings ==
                 IF Ref(h, workflow, "globalSettings") # Null
                 THEN mergeWorkflowSettingsAt(
                          h, Ref(h, workflow, "globalSettings"), overrides,
                          "applied.workflows#" \o Idx(i) \o ".globalSettings")
                 ELSE Result(overrides, EmptyHeap)
         IN applyOverridesAt(
              Assign(Fuse({settings.new, h}), workflow, "globalSettings", settings.ref),
              workflows, i + 1, overrides)

\* mergeEnvironment(config, environmentName): the address of the configuration
\* returned and the heap after the call
mergeEnvironmentAt(h, config, environmentName) ==
    LET environments == Ref(h, config, "environments")
        hits == IF environments = Null THEN {}
                ELSE {i \in 1..Len(Items(h, environments[1])) :
                        h[Items(h, environments[1])[i]].prims.name = environmentName}
    IN IF hits = {} THEN [ref |-> config, heap |-> h]
       ELSE LET environment == Items(h, environments[1])[Min(hits)]
                cloned == jsonCloneAt(h, config)
                merged == cloned.ref
                overrides == Ref(h, environment, "overrides")
                workflows == Items(cloned.heap, cloned.heap[merged].refs.workflows)
                applied ==
                    IF overrides = Null THEN cloned.heap
                    ELSE Assign(Fuse({NewArray("applied.workflows", workflows),
                                      applyOverridesAt(cloned.heap, workflows, 1, overrides)}),
                                merged, "workflows", Some("applied.workflows"))
                metadata == Ref(applied, merged, "metadata")
                tagged ==
                    Object([appliedEnvironment |-> environmentName]
                           @@ (IF metadata = Null THEN EmptyMap
                               ELSE applied[metadata[1]].prims),
                           Refs({<<"environmentVariables", Ref(h, environment, "variables")>>,
                                 <<"featureFlags", Ref(h, environment, "featureFlags")>>}
                                \cup (IF metadata = Null THEN {}
                                      ELSE {<<n, Some(applied[metadata[1]].refs[n])>> :
                                              n \in DOMAIN applied[metadata[1]].refs
                                                    \ {"environmentVariables",
                                                       "featureFlags"}})))
            IN [ref |-> merged,
                heap |-> Assign(Fuse({"applied.metadata" :> tagged, applied}),
                                merged, "metadata", Some("applied.metadata"))]

\* the argument pairs laid out as objects
ObjectInputs ==
    WorkflowListInputs \cup WorkflowInputs \cup EnvironmentInputs \cup AppliedInputs

\* configMerger.merge(base, override); ret keeps the heap before the call
MergeObjects ==
    /\ stage = "objects" /\ ret = NoRet
    /\ LET merged == mergeAt(heap, base, override)
       IN /\ heap' = merged.heap
          /\ ret' = [op |-> "merge", result |-> merged.ref, before |-> heap]
    /\ UNCHANGED <<calls, frame, base, override, input, stage, vres, pmConfig>>

\* configMerger.mergeEnvironment(base, environmentName)
MergeEnvironmentObjects ==
    /\ stage = "objects" /\ ret = NoRet
    /\ \E environmentName \in EnvironmentNames \cup {"staging"} :
         LET merged == mergeEnvironmentAt(heap, base, environmentName)
         IN /\ heap' = merged.heap
            /\ ret' = [op |-> "mergeEnvironment", environmentName |-> environmentName,
                       result |-> merged.ref, before |-> heap]
    /\ UNCHANGED <<calls, frame, base, override, input, stage, vres, pmConfig>>

InitObjects ==
    /\ input = EmptyConfig
    /\ stage = "objects"
    /\ vres = NoResult
    /\ pmConfig = Null
    /\ ret = NoRet
    /\ base = "base"
    /\ override = "override"
    /\ calls = 0
    /\ frame = NoFrame
    /\ \E pair \in ObjectInputs :
         heap = Fuse({LayConfig("base", pair[1]), LayConfig("override", pair[2])})

NextObjects == MergeObjects \/ MergeEnvironmentObjects

SpecObjects == InitObjects /\ [][NextObjects]_vars

(***************************************************************************)
(* Properties of ConfigLoader.validate (checked under SpecValidate).       *)
(***************************************************************************)
Validated == stage = "validated"

WfIdx(config) == 1..Len(config.workflows)

PhIdx(workflow) == 1..Len(workflow.phases)

DeclaredPhaseIds(workflow) == {workflow.phases[p].id : p \in PhIdx(workflow)}

DeclaredTaskIds(phase) == {phase.tasks[t].id : t \in 1..Len(phase.tasks)}

\* the initialPhase is set: present and a non-empty string (the code's test)
InitialPhaseSet(workflow) ==
    "initialPhase" \notin workflow.absent /\ workflow.initialPhase # ""

AllReferencesResolve(config) ==
    \A w \in WfIdx(config) :
      LET wf == config.workflows[w] IN
        /\ "initialPhase" \notin wf.absent => wf.initialPhase \in DeclaredPhaseIds(wf)
        /\ \A p \in PhIdx(wf) :
             /\ \A n \in 1..Len(wf.phases[p].nextPhases) :
                  wf.phases[p].nextPhases[n] \in DeclaredPhaseIds(wf)
             /\ \A t \in 1..Len(wf.phases[p].tasks) :
                  \A d \in 1..Len(wf.phases[p].tasks[t].dependencies) :
                    wf.phases[p].tasks[t].dependencies[d] \in DeclaredTaskIds(wf.phases[p])
        /\ \A tr \in 1..Len(wf.transitions) :
             /\ wf.transitions[tr].from \in DeclaredPhaseIds(wf)
             /\ wf.transitions[tr].to \in DeclaredPhaseIds(wf)

ErrorsOfType(result, type) == {i \in 1..Len(result.errors) : result.errors[i].type = type}

WarningsOfType(result, type) ==
    {i \in 1..Len(result.warnings) : result.warnings[i].type = type}

\* C1: when every nextPhases id, transition endpoint, initialPhase and task
\* dependency resolves to a sibling id, validate adds no reference error, and
\* with no shape violation it returns valid = true with an empty error list.
C1_ResolvedConfigIsValid ==
    (Validated /\ AllReferencesResolve(input)) =>
        /\ ErrorsOfType(vres, "reference") = {}
        /\ validateFunction(input) = <<>> => (vres.valid /\ vres.errors = <<>>)

\* a schema-clean configuration with two workflows, a transition, a nextPhases
\* entry and a task dependency, all resolving, has been validated
C1_Witness ==
    /\ Validated /\ AllReferencesResolve(input) /\ validateFunction(input) = <<>>
    /\ \E w \in WfIdx(input) :
         /\ Len(input.workflows[w].transitions) > 0
         /\ \E p \in PhIdx(input.workflows[w]) :
              /\ Len(input.workflows[w].phases[p].nextPhases) > 0
              /\ \E t \in 1..Len(input.workflows[w].phases[p].tasks) :
                   Len(input.workflows[w].phases[p].tasks[t].dependencies) > 0
    /\ vres.valid

\* paths at which a dangling phase reference (initialPhase, nextPhases entry,
\* transition from / to) is to be reported, over the workflows that have a
\* phases list
DanglingPhaseReferencePaths(config) ==
    UNION {
      LET wf == config.workflows[w]
          ids == DeclaredPhaseIds(wf)
          at == "/workflows/" \o Idx(w)
      IN IF "phases" \in wf.absent THEN {} ELSE
         (IF InitialPhaseSet(wf) /\ wf.initialPhase \notin ids
          THEN {at \o "/initialPhase"} ELSE {})
         \cup UNION {{at \o "/phases/" \o Idx(p) \o "/nextPhases/" \o Idx(n) :
                        n \in {x \in 1..Len(wf.phases[p].nextPhases) :
                                 wf.phases[p].nextPhases[x] \notin ids}} :
                     p \in PhIdx(wf)}
         \cup {at \o "/transitions/" \o Idx(tr) \o "/from" :
                 tr \in {x \in 1..Len(wf.transitions) : wf.transitions[x].from \notin ids}}
         \cup {at \o "/transitions/" \o Idx(tr) \o "/to" :
                 tr \in {x \in 1..Len(wf.transitions) : wf.transitions[x].to \notin ids}}
      : w \in WfIdx(config)}

PhaseReferenceErrors(result) ==
    {i \in ErrorsOfType(result, "reference") : result.errors[i].message[1] # "Task dependency"}

\* C3: for every workflow that has a phases list, validate emits exactly one
\* 'reference' error per dangling phase reference (a set initialPhase, a
\* nextPhases entry, a transition's from, a transition's to), at the path of
\* that reference, and none for a reference that resolves within the workflow.
C3_OneErrorPerDanglingPhaseReference ==
    Validated =>
        /\ {vres.errors[i].path : i \in PhaseReferenceErrors(vres)}
             = DanglingPhaseReferencePaths(input)
        /\ \A i, j \in PhaseReferenceErrors(vres) :
             vres.errors[i].path = vres.errors[j].path => i = j

\* the second workflow refers, in nextPhases, to a phase id that only the first
\* workflow declares, and the error is at the second workflow's entry
C3_Witness ==
    /\ Validated /\ Len(input.workflows) = 2
    /\ \E p \in PhIdx(input.workflows[2]) :
         /\ Len(input.workflows[2].phases[p].nextPhases) > 0
         /\ input.workflows[2].phases[p].nextPhases[1] \in DeclaredPhaseIds(input.workflows[1])
         /\ input.workflows[2].phases[p].nextPhases[1] \notin DeclaredPhaseIds(input.workflows[2])
         /\ \E i \in PhaseReferenceErrors(vres) :
              vres.errors[i].path = "/workflows/1/phases/" \o Idx(p) \o "/nextPhases/0"

\* C4: every task dependency id that is not a task id of the same phase makes
\* validate return valid = false with a 'reference' error at
\* /workflows/{w}/phases/{p}/tasks/{t}/dependencies/{d} whose message holds
\* 'Task dependency' and the dependency id.
C4_DanglingTaskDependencyReported ==
    Validated =>
        \A w \in WfIdx(input) : \A p \in PhIdx(input.workflows[w]) :
          LET phase == input.workflows[w].phases[p] IN
            \A t \in 1..Len(phase.tasks) : \A d \in 1..Len(phase.tasks[t].dependencies) :
              phase.tasks[t].dependencies[d] \notin DeclaredTaskIds(phase) =>
                /\ ~vres.valid
                /\ \E i \in ErrorsOfType(vres, "reference") :
                     /\ vres.errors[i].path =
                          "/workflows/" \o Idx(w) \o "/phases/" \o Idx(p)
                            \o "/tasks/" \o Idx(t) \o "/dependencies/" \o Idx(d)
                     /\ vres.errors[i].message[1] = "Task dependency"
                     /\ vres.errors[i].message[2] = phase.tasks[t].dependencies[d]

\* a task of the second phase depends on a task that only the first phase has
C4_Witness ==
    /\ Validated /\ Len(input.workflows) = 1 /\ Len(input.workflows[1].phases) = 2
    /\ LET first == input.workflows[1].phases[1]
           second == input.workflows[1].phases[2]
       IN /\ Len(second.tasks) > 0 /\ Len(second.tasks[1].dependencies) > 0
          /\ second.tasks[1].dependencies[1] \in DeclaredTaskIds(first)
          /\ second.tasks[1].dependencies[1] \notin DeclaredTaskIds(second)
    /\ ~vres.valid
    /\ \E i \in ErrorsOfType(vres, "reference") :
         vres.errors[i].path = "/workflows/0/phases/1/tasks/0/dependencies/0"

\* the referenced set of a workflow: initialPhase (if set), every transition's
\* from and to, every nextPhases entry of every phase
ReferencedSet(workflow) ==
    (IF InitialPhaseSet(workflow) THEN {workflow.initialPhase} ELSE {})
    \cup {workflow.transitions[tr].from : tr \in 1..Len(workflow.transitions)}
    \cup {workflow.transitions[tr].to : tr \in 1..Len(workflow.transitions)}
    \cup UNION {{workflow.phases[p].nextPhases[n] : n \in 1..Len(workflow.phases[p].nextPhases)} :
                  p \in PhIdx(workflow)}

UnusedPath(w, p) == "/workflows/" \o Idx(w) \o "/phases/" \o Idx(p)

\* C5: validate emits an 'unused' warning at /workflows/{w}/phases/{p} for
\* exactly the phases whose id is not in the workflow's referenced set, once each.
C5_UnusedExactlyUnreferenced ==
    Validated =>
        /\ {vres.warnings[i].path : i \in WarningsOfType(vres, "unused")}
             = UNION {{UnusedPath(w, p) :
                         p \in {x \in PhIdx(input.workflows[w]) :
                                  input.workflows[w].phases[x].id
                                    \notin ReferencedSet(input.workflows[w])}} :
                      w \in WfIdx(input)}
        /\ \A i, j \in WarningsOfType(vres, "unused") :
             vres.warnings[i].path = vres.warnings[j].path => i = j

\* one phase is referenced only by a transition of its workflow, another phase
\* of the same workflow is referenced by nothing and gets the warning
C5_Witness ==
    /\ Validated
    /\ \E w \in WfIdx(input) :
         LET wf == input.workflows[w] IN
           /\ Len(wf.phases) = 2 /\ Len(wf.transitions) > 0
           /\ wf.phases[1].id \in ReferencedSet(wf)
           /\ wf.phases[2].id \notin ReferencedSet(wf)
           /\ \E i \in WarningsOfType(vres, "unused") : vres.warnings[i].path = UnusedPath(w, 2)
           /\ ~ \E i \in WarningsOfType(vres, "unused") : vres.warnings[i].path = UnusedPath(w, 1)

HasUnusedWarning(w, p) ==
    \E i \in WarningsOfType(vres, "unused") : vres.warnings[i].path = UnusedPath(w, p)

IsTarget(workflow, id) ==
    \/ \E tr \in 1..Len(workflow.transitions) : workflow.transitions[tr].to = id
    \/ \E p \in PhIdx(workflow) : id \in Range(workflow.phases[p].nextPhases)

IsTransitionSource(workflow, id) ==
    \E tr \in 1..Len(workflow.transitions) : workflow.transitions[tr].from = id

IsInitial(workflow, id) == InitialPhaseSet(workflow) /\ workflow.initialPhase = id

\* C6 as stated, on the configurations validate accepts: a phase with outgoing
\* transitions or nextPhases entries that is never a target and is not the
\* initialPhase is flagged 'unused'.
C6_SourceOnlyPhaseFlagged ==
    (Validated /\ vres.valid) =>
        \A w \in WfIdx(input) : \A p \in PhIdx(input.workflows[w]) :
          LET wf == input.workflows[w] IN
            (/\ (IsTransitionSource(wf, wf.phases[p].id) \/ Len(wf.phases[p].nextPhases) > 0)
             /\ ~IsTarget(wf, wf.phases[p].id)
             /\ ~IsInitial(wf, wf.phases[p].id))
            => HasUnusedWarning(w, p)

\* C6 amended: a phase whose outgoing edges are nextPhases entries only (no
\* transition names it as from), that is never a target and is not the
\* initialPhase, is flagged 'unused'; a phase that is the from of a transition
\* is never flagged.
C6_NextPhasesOnlySourceFlagged ==
    Validated =>
        \A w \in WfIdx(input) : \A p \in PhIdx(input.workflows[w]) :
          LET wf == input.workflows[w] IN
            /\ (/\ Len(wf.phases[p].nextPhases) > 0
                /\ ~IsTransitionSource(wf, wf.phases[p].id)
                /\ ~IsTarget(wf, wf.phases[p].id)
                /\ ~IsInitial(wf, wf.phases[p].id))
               => HasUnusedWarning(w, p)
            /\ IsTransitionSource(wf, wf.phases[p].id) => ~HasUnusedWarning(w, p)

\* a phase whose only edge is its own nextPhases entry to the initial phase
\* is flagged
C6_Witness ==
    /\ Validated /\ vres.valid
    /\ \E w \in WfIdx(input) : \E p \in PhIdx(input.workflows[w]) :
         LET wf == input.workflows[w] IN
           /\ Len(wf.phases[p].nextPhases) > 0
           /\ ~IsTransitionSource(wf, wf.phases[p].id)
           /\ ~IsTarget(wf, wf.phases[p].id)
           /\ ~IsInitial(wf, wf.phases[p].id)
           /\ wf.transitions = <<>>
           /\ HasUnusedWarning(w, p)

(***************************************************************************)
(* Properties of PhaseManager and of both validators (checked under        *)
(* SpecNav).                                                               *)
(***************************************************************************)
Called(op) == ret.op = op

WorkflowHits(workflowId) ==
    IF pmConfig = Null THEN {}
    ELSE {i \in 1..Len(pmConfig[1].workflows) : pmConfig[1].workflows[i].id = workflowId}

WorkflowFound(workflowId) == WorkflowHits(workflowId) # {}

\* the workflow a lookup by id yields: the first one declared with that id
TheWorkflow(workflowId) ==
    pmConfig[1].workflows[CHOOSE i \in WorkflowHits(workflowId) :
                             \A j \in WorkflowHits(workflowId) : i <= j]

PhaseHits(workflowId, phaseId) ==
    IF ~WorkflowFound(workflowId) THEN {}
    ELSE {p \in PhIdx(TheWorkflow(workflowId)) : TheWorkflow(workflowId).phases[p].id = phaseId}

PhaseFound(workflowId, phaseId) == PhaseHits(workflowId, phaseId) # {}

ThePhase(workflowId, phaseId) ==
    TheWorkflow(workflowId).phases[CHOOSE p \in PhaseHits(workflowId, phaseId) :
                                     \A q \in PhaseHits(workflowId, phaseId) : p <= q]

\* the declared transitions of the workflow that leave the phase, in order
ExplicitFrom(workflowId, phaseId) ==
    SelectSeq(TheWorkflow(workflowId).transitions, LAMBDA t : t.from = phaseId)

ExplicitTargets(workflowId, phaseId) ==
    {ExplicitFrom(workflowId, phaseId)[i].to : i \in 1..Len(ExplicitFrom(workflowId, phaseId))}

\* the nextPhases ids of the phase that no explicit transition targets, in order
Unsuppressed(workflowId, phaseId) ==
    SelectSeq(ThePhase(workflowId, phaseId).nextPhases,
              LAMBDA id : id \notin ExplicitTargets(workflowId, phaseId))

CountTo(transitions, to) ==
    Cardinality({i \in 1..Len(transitions) : transitions[i].to = to})

Occurrences(ids, id) == Cardinality({i \in 1..Len(ids) : ids[i] = id})

\* C2: in every result of validate and of validatePhaseCompletion, valid is
\* true exactly when the error list is empty, whatever the warnings are.
C2_ValidIffNoErrors ==
    /\ stage \in {"validated", "set"} => (vres.valid <=> vres.errors = <<>>)
    /\ Called("validatePhaseCompletion") => (ret.result.valid <=> ret.result.errors = <<>>)

\* validate and validatePhaseCompletion both returned warnings and valid = true
C2_Witness ==
    /\ stage = "set" /\ vres.valid /\ Len(vres.warnings) > 0
    /\ Called("validatePhaseCompletion")
    /\ ret.result.valid /\ Len(ret.result.warnings) > 0

\* C7: for an existing workflow and phase, getAvailableTransitions returns the
\* explicit transitions leaving the phase in declared order, followed by one
\* synthesized transition {from, to, conditions: [], metadata: {implicit: true}}
\* per nextPhases id, in declared order, that no such explicit transition targets.
C7_ExplicitThenImplicit ==
    (Called("getAvailableTransitions") /\ PhaseFound(ret.workflowId, ret.phaseId)) =>
        LET explicit == ExplicitFrom(ret.workflowId, ret.phaseId)
            rest == Unsuppressed(ret.workflowId, ret.phaseId)
        IN /\ Len(ret.result) = Len(explicit) + Len(rest)
           /\ \A i \in 1..Len(explicit) : ret.result[i] = explicit[i]
           /\ \A j \in 1..Len(rest) :
                ret.result[Len(explicit) + j] =
                    [from |-> ret.phaseId, to |-> rest[j],
                     conditions |-> <<>>, metadata |-> {"implicit"}]

\* no explicit transition and two nextPhases ids: two implicit transitions, in
\* the order of nextPhases
C7_Witness ==
    /\ Called("getAvailableTransitions") /\ PhaseFound(ret.workflowId, ret.phaseId)
    /\ TheWorkflow(ret.workflowId).transitions = <<>>
    /\ ThePhase(ret.workflowId, ret.phaseId).nextPhases = <<"p2", "zz">>
    /\ ret.result = <<[from |-> ret.phaseId, to |-> "p2", conditions |-> <<>>,
                       metadata |-> {"implicit"}],
                      [from |-> ret.phaseId, to |-> "zz", conditions |-> <<>>,
                       metadata |-> {"implicit"}]>>

\* C8 as stated: the result of getAvailableTransitions holds at most one
\* transition per distinct target phase.
C8_AtMostOnePerTarget ==
    Called("getAvailableTransitions") =>
        \A to \in RefIds : CountTo(ret.result, to) <= 1

\* C8 amended: explicit transitions suppress the implicit ones of their target
\* and nothing else is removed: the entries with a given target are the
\* explicit transitions from the phase to it when there are any, and otherwise
\* one implicit entry per occurrence of the target in nextPhases; so a single
\* explicit transition to a target listed in nextPhases gives exactly one entry.
C8_ExplicitSuppressesImplicit ==
    (Called("getAvailableTransitions") /\ PhaseFound(ret.workflowId, ret.phaseId)) =>
        \A to \in RefIds :
          LET explicit == CountTo(ExplicitFrom(ret.workflowId, ret.phaseId), to)
              listed == Occurrences(ThePhase(ret.workflowId, ret.phaseId).nextPhases, to)
          IN /\ CountTo(ret.result, to) = IF explicit > 0 THEN explicit ELSE listed
             /\ explicit > 0 =>
                  \A i \in 1..Len(ret.result) :
                    ret.result[i].to = to => ret.result[i].metadata = {}

\* one explicit transition to a phase that nextPhases lists too: one entry
C8_Witness ==
    /\ Called("getAvailableTransitions") /\ PhaseFound(ret.workflowId, ret.phaseId)
    /\ \E to \in RefIds :
         /\ CountTo(ExplicitFrom(ret.workflowId, ret.phaseId), to) = 1
         /\ Occurrences(ThePhase(ret.workflowId, ret.phaseId).nextPhases, to) = 1
         /\ CountTo(ret.result, to) = 1

\* C9: canTransition(w, a, b) is true exactly when b is the target of a
\* transition of getAvailableTransitions(w, a): when a is a phase of workflow w
\* and b is the target of an explicit transition from a or listed in a's
\* nextPhases; false when no configuration is set, w is missing or a is no phase.
C9_CanTransitionIffAvailable ==
    Called("canTransition") =>
        /\ ret.result <=>
             \E i \in 1..Len(getAvailableTransitions(pmConfig, ret.workflowId, ret.phaseId)) :
               getAvailableTransitions(pmConfig, ret.workflowId, ret.phaseId)[i].to = ret.to
        /\ ret.result <=>
             /\ PhaseFound(ret.workflowId, ret.phaseId)
             /\ \/ ret.to \in ExplicitTargets(ret.workflowId, ret.phaseId)
                \/ ret.to \in Range(ThePhase(ret.workflowId, ret.phaseId).nextPhases)

\* an edge that only nextPhases declares can be taken
C9_Witness ==
    /\ Called("canTransition") /\ PhaseFound(ret.workflowId, ret.phaseId)
    /\ ret.to \notin ExplicitTargets(ret.workflowId, ret.phaseId)
    /\ ret.to \in Range(ThePhase(ret.workflowId, ret.phaseId).nextPhases)
    /\ ret.result = TRUE

\* C10: with no configuration set, an unknown workflow id or an unknown phase
\* id, getPhase and getWorkflow return nothing, getAvailableTransitions and
\* getAllPhases return the empty sequence and canTransition returns false: the
\* same result for each of the three causes.
C10_NotFoundIsAbsence ==
    /\ (Called("getPhase") /\ ~PhaseFound(ret.workflowId, ret.phaseId)) => ret.result = Null
    /\ (Called("getWorkflow") /\ ~WorkflowFound(ret.workflowId)) => ret.result = Null
    /\ (Called("getAvailableTransitions") /\ ~PhaseFound(ret.workflowId, ret.phaseId))
         => ret.result = <<>>
    /\ (Called("getAllPhases") /\ ~WorkflowFound(ret.workflowId)) => ret.result = <<>>
    /\ (Called("canTransition") /\ ~PhaseFound(ret.workflowId, ret.phaseId))
         => ret.result = FALSE

\* the workflow exists and declares a transition leaving an id that is not one
\* of its phases: asking for the transitions of that id yields nothing
C10_Witness ==
    /\ Called("getAvailableTransitions")
    /\ WorkflowFound(ret.workflowId) /\ ~PhaseFound(ret.workflowId, ret.phaseId)
    /\ Len(ExplicitFrom(ret.workflowId, ret.phaseId)) > 0
    /\ ret.result = <<>>

(***************************************************************************)
(* Properties of validatePhaseCompletion (checked under SpecCompletion).   *)
(***************************************************************************)
MissingError(result, message) ==
    /\ Len(result.errors) = 1
    /\ result.errors[1].type = "missing"
    /\ result.errors[1].message = <<message>>

\* C11: validatePhaseCompletion returns valid = false with exactly one error of
\* type 'missing' and no warnings when no configuration is set ('No
\* configuration loaded') and when the workflow or phase does not exist ('Phase
\* not found'); when the phase is found the error list is empty and valid is
\* true, whatever its tasks, their required flags and requiresApproval are.
C11_CompletionErrors ==
    Called("validatePhaseCompletion") =>
        /\ pmConfig = Null =>
              /\ ~ret.result.valid /\ ret.result.warnings = <<>>
              /\ MissingError(ret.result, "No configuration loaded")
        /\ (pmConfig # Null /\ ~PhaseFound(ret.workflowId, ret.phaseId)) =>
              /\ ~ret.result.valid /\ ret.result.warnings = <<>>
              /\ MissingError(ret.result, "Phase not found")
        /\ PhaseFound(ret.workflowId, ret.phaseId) =>
              ret.result.valid /\ ret.result.errors = <<>>

\* a found phase that requires approval and has a required task is reported
\* complete, and both facts were seen (they were logged)
C11_Witness ==
    /\ Called("validatePhaseCompletion") /\ PhaseFound(ret.workflowId, ret.phaseId)
    /\ ThePhase(ret.workflowId, ret.phaseId).requiresApproval
    /\ \E t \in 1..Len(ThePhase(ret.workflowId, ret.phaseId).tasks) :
         ThePhase(ret.workflowId, ret.phaseId).tasks[t].required
    /\ Len(ret.log) = 2
    /\ ret.result.valid /\ ret.result.errors = <<>>

BestPractice(result, message) ==
    {i \in 1..Len(result.warnings) :
       result.warnings[i].type = "best-practice" /\ result.warnings[i].message = <<message>>}

\* C12: for a found phase, validatePhaseCompletion emits one 'best-practice'
\* warning about missing exit conditions exactly when exitConditions is empty,
\* and one about no available transitions exactly when the phase has no
\* outgoing explicit transition, no implicit one and no nextPhases entry; there
\* is no other warning, so a phase with exitConditions = [], nextPhases = [] and
\* no outgoing explicit transition yields valid = true with exactly these two.
C12_CompletionWarnings ==
    (Called("validatePhaseCompletion") /\ PhaseFound(ret.workflowId, ret.phaseId)) =>
        LET phase == ThePhase(ret.workflowId, ret.phaseId)
            noExit == BestPractice(ret.result, "Phase has no exit conditions defined")
            deadEnd == BestPractice(ret.result,
                                    "Phase has no available transitions or next phases")
            isDeadEnd == /\ Len(ExplicitFrom(ret.workflowId, ret.phaseId)) = 0
                         /\ Len(phase.nextPhases) = 0
        IN /\ Cardinality(noExit) = IF phase.exitConditions = <<>> THEN 1 ELSE 0
           /\ Cardinality(deadEnd) = IF isDeadEnd THEN 1 ELSE 0
           /\ noExit \cup deadEnd = 1..Len(ret.result.warnings)
           /\ (phase.exitConditions = <<>> /\ isDeadEnd) =>
                 ret.result.valid /\ Len(ret.result.warnings) = 2

\* the scenario: no exit conditions, no nextPhases, no outgoing transition (the
\* workflow has a transition, but it leaves another phase): two warnings
C12_Witness ==
    /\ Called("validatePhaseCompletion") /\ PhaseFound(ret.workflowId, ret.phaseId)
    /\ ThePhase(ret.workflowId, ret.phaseId).exitConditions = <<>>
    /\ ThePhase(ret.workflowId, ret.phaseId).nextPhases = <<>>
    /\ Len(TheWorkflow(ret.workflowId).transitions) > 0
    /\ Len(ExplicitFrom(ret.workflowId, ret.phaseId)) = 0
    /\ ret.result.valid /\ Len(ret.result.warnings) = 2

(***************************************************************************)
(* Properties of ConfigMerger (checked under SpecMerge).                   *)
(***************************************************************************)
IdsOf(workflows) == [i \in 1..Len(workflows) |-> workflows[i].id]

\* the ids of a list in the order of their first occurrence
FirstOccurrences(ids) ==
    SelectSeq([i \in 1..Len(ids) |-> IF \E j \in 1..(i - 1) : ids[j] = ids[i]
                                     THEN <<>> ELSE <<ids[i]>>],
              LAMBDA x : x # <<>>)

DistinctIds(ids) == [i \in 1..Len(FirstOccurrences(ids)) |-> FirstOccurrences(ids)[i][1]]

WithId(workflows, id) == SelectSeq(workflows, LAMBDA w : w.id = id)

RECURSIVE MergedInTurn(_, _)
MergedInTurn(workflow, later) ==
    IF later = <<>> THEN workflow
    ELSE MergedInTurn(mergeWorkflow(workflow, Head(later)), Tail(later))

C14_SelfMergeOnePerId ==
    (Called("merge") /\ base = override) =>
        LET r == IdsOf(ret.result.workflows)
        IN /\ \A i, j \in 1..Len(r) : r[i] = r[j] => i = j
           /\ r = DistinctIds(IdsOf(base.workflows))

\* a configuration with two workflows was merged with itself: two workflows
C14_Witness ==
    /\ Called("merge") /\ base = override
    /\ IdsOf(base.workflows) = <<"b", "a">>
    /\ IdsOf(ret.result.workflows) = <<"b", "a">>

\* C15: in merge(base, override) each of version, defaultWorkflow and
\* defaultEnvironment is override's value whenever override has the field,
\* whatever string it holds, and base's value only when override has not.
C15_PresentOverrideScalarWins ==
    Called("merge") =>
        /\ ret.result.version =
             IF override.version # Null THEN override.version ELSE base.version
        /\ ret.result.defaultWorkflow =
             IF override.defaultWorkflow # Null THEN override.defaultWorkflow
             ELSE base.defaultWorkflow
        /\ ret.result.defaultEnvironment =
             IF override.defaultEnvironment # Null THEN override.defaultEnvironment
             ELSE base.defaultEnvironment

\* the keys and values of an optional object; a missing object has no keys
MapOf(object) == IF object = Null THEN EmptyMap ELSE object[1]

\* key by key, override's value on the keys override has, base's on the others
KeyByKey(baseMap, overrideMap) ==
    [k \in DOMAIN baseMap \cup DOMAIN overrideMap |->
        IF k \in DOMAIN overrideMap THEN overrideMap[k] ELSE baseMap[k]]

\* the settings-merge rule: a side without settings leaves the other side's
\* settings; with both, the flag is override's when override has one, each
\* array is override's when override has one, the two objects are merged key
\* by key
IsSettingsMerge(result, baseSettings, overrideSettings) ==
    IF baseSettings = Null THEN result = overrideSettings
    ELSE IF overrideSettings = Null THEN result = baseSettings
    ELSE LET b == baseSettings[1]
             o == overrideSettings[1]
         IN /\ result # Null
            /\ result[1].requireApprovalForTransitions =
                 IF o.requireApprovalForTransitions # Null
                 THEN o.requireApprovalForTransitions ELSE b.requireApprovalForTransitions
            /\ result[1].defaultApprovers =
                 IF o.defaultApprovers # Null THEN o.defaultApprovers ELSE b.defaultApprovers
            /\ result[1].notificationChannels =
                 IF o.notificationChannels # Null
                 THEN o.notificationChannels ELSE b.notificationChannels
            /\ MapOf(result[1].timeoutSettings) =
                 KeyByKey(MapOf(b.timeoutSettings), MapOf(o.timeoutSettings))
            /\ MapOf(result[1].integrations) =
                 KeyByKey(MapOf(b.integrations), MapOf(o.integrations))

\* the workflows of base and override that merge() merges for an id: the last
\* base workflow with the id and the one override workflow with it
MergedIds ==
    {id \in MergeWorkflowIds :
       /\ Len(WithId(base.workflows, id)) > 0
       /\ Len(WithId(override.workflows, id)) = 1}

BaseSide(id) == WithId(base.workflows, id)[Len(WithId(base.workflows, id))]

OverrideSide(id) == WithId(override.workflows, id)[1]

Merged(id) == WithId(ret.result.workflows, id)[1]

\* C16: when a workflow id occurs in both base and override, the merged
\* workflow has override's name, version, initialPhase, phases and transitions
\* (base's phases and transitions are not combined with them), base's optional
\* fields that override does not have, globalSettings equal to the
\* settings-merge of both globalSettings, and metadata equal to the key-by-key
\* merge of both metadata maps with override winning on shared keys.
C16_MergedWorkflow ==
    Called("merge") =>
        \A id \in MergedIds :
          LET b == BaseSide(id)
              o == OverrideSide(id)
              r == Merged(id)
          IN /\ Len(WithId(ret.result.workflows, id)) = 1
             /\ r.name = o.name /\ r.version = o.version
             /\ r.initialPhase = o.initialPhase
             /\ r.phases = o.phases /\ r.transitions = o.transitions
             /\ r.description = IF o.description # Null THEN o.description ELSE b.description
             /\ IsSettingsMerge(r.globalSettings, b.globalSettings, o.globalSettings)
             /\ MapOf(r.metadata) = KeyByKey(MapOf(b.metadata), MapOf(o.metadata))
             /\ r.metadata = Null <=> (b.metadata = Null /\ o.metadata = Null)

\* both sides declare workflow a with different phases, settings and an owner;
\* only base has a description: the result has override's phases and owner,
\* base's description and settings taken from both sides
C16_Witness ==
    /\ Called("merge") /\ "a" \in MergedIds
    /\ BaseSide("a").phases # OverrideSide("a").phases
    /\ BaseSide("a").description # Null /\ OverrideSide("a").description = Null
    /\ BaseSide("a").globalSettings = Some(SettingsA)
    /\ OverrideSide("a").globalSettings = Some(SettingsB)
    /\ BaseSide("a").metadata = Some([owner |-> "o1"])
    /\ OverrideSide("a").metadata = Some([owner |-> "o2", team |-> "t1"])
    /\ Merged("a").phases = OverrideSide("a").phases
    /\ Merged("a").description = BaseSide("a").description
    /\ Merged("a").metadata = Some([owner |-> "o2", team |-> "t1"])
    /\ Merged("a").globalSettings[1].defaultApprovers = Some(<<"u1">>)
    /\ Merged("a").globalSettings[1].notificationChannels = Some(<<"c1">>)

\* C17: the settings-merge of a base and an override GlobalSettings has
\* requireApprovalForTransitions = override's when override has one (false
\* included), else base's; defaultApprovers and notificationChannels =
\* override's array when override supplies one (the empty array included), else
\* base's, never a concatenation; timeoutSettings and integrations = the keys
\* of both objects, with override's value on each key override has and base's
\* value on the others.
C17_SettingsMerge ==
    Called("merge") =>
        \A id \in MergedIds :
          (BaseSide(id).globalSettings # Null /\ OverrideSide(id).globalSettings # Null) =>
            LET b == BaseSide(id).globalSettings[1]
                o == OverrideSide(id).globalSettings[1]
                r == Merged(id).globalSettings[1]
                rt == MapOf(r.timeoutSettings)
                ri == MapOf(r.integrations)
            IN /\ o.requireApprovalForTransitions # Null =>
                    r.requireApprovalForTransitions = o.requireApprovalForTransitions
               /\ o.requireApprovalForTransitions = Null =>
                    r.requireApprovalForTransitions = b.requireApprovalForTransitions
               /\ o.defaultApprovers # Null => r.defaultApprovers = o.defaultApprovers
               /\ o.defaultApprovers = Null => r.defaultApprovers = b.defaultApprovers
               /\ o.notificationChannels # Null =>
                    r.notificationChannels = o.notificationChannels
               /\ o.notificationChannels = Null =>
                    r.notificationChannels = b.notificationChannels
               /\ DOMAIN rt = DOMAIN MapOf(b.timeoutSettings) \cup DOMAIN MapOf(o.timeoutSettings)
               /\ \A k \in DOMAIN rt :
                    rt[k] = IF k \in DOMAIN MapOf(o.timeoutSettings)
                            THEN MapOf(o.timeoutSettings)[k] ELSE MapOf(b.timeoutSettings)[k]
               /\ DOMAIN ri = DOMAIN MapOf(b.integrations) \cup DOMAIN MapOf(o.integrations)
               /\ \A k \in DOMAIN ri :
                    ri[k] = IF k \in DOMAIN MapOf(o.integrations)
                            THEN MapOf(o.integrations)[k] ELSE MapOf(b.integrations)[k]

\* override says false and [] where base says true and [u1], and gives one of
\* the two timeout keys of base: false, [] and both keys, one from each side
C17_Witness ==
    /\ Called("merge") /\ "a" \in MergedIds
    /\ BaseSide("a").globalSettings # Null /\ OverrideSide("a").globalSettings # Null
    /\ BaseSide("a").globalSettings[1].requireApprovalForTransitions = Some(TRUE)
    /\ OverrideSide("a").globalSettings[1].requireApprovalForTransitions = Some(FALSE)
    /\ BaseSide("a").globalSettings[1].defaultApprovers = Some(<<"u1">>)
    /\ OverrideSide("a").globalSettings[1].defaultApprovers = Some(<<>>)
    /\ BaseSide("a").globalSettings[1].timeoutSettings =
         Some([phaseTimeout |-> "14 days", taskTimeout |-> "24 hours"])
    /\ OverrideSide("a").globalSettings[1].timeoutSettings = Some([phaseTimeout |-> "7 days"])
    /\ Merged("a").globalSettings[1].requireApprovalForTransitions = Some(FALSE)
    /\ Merged("a").globalSettings[1].defaultApprovers = Some(<<>>)
    /\ Merged("a").globalSettings[1].timeoutSettings =
         Some([phaseTimeout |-> "7 days", taskTimeout |-> "24 hours"])

ListOf(environments) == IF environments = Null THEN <<>> ELSE environments[1]

NamesOf(environments) == [i \in 1..Len(environments) |-> environments[i].name]

Named(environments, name) == SelectSeq(environments, LAMBDA e : e.name = name)

\* result is base and override combined: override's properties over base's,
\* overrides by the settings-merge rule, featureFlags and variables key by key
IsEnvironmentMerge(result, baseEnv, overrideEnv) ==
    /\ result.name = overrideEnv.name
    /\ result.description =
         IF overrideEnv.description # Null THEN overrideEnv.description
         ELSE baseEnv.description
    /\ IsSettingsMerge(result.overrides, baseEnv.overrides, overrideEnv.overrides)
    /\ MapOf(result.featureFlags) =
         KeyByKey(MapOf(baseEnv.featureFlags), MapOf(overrideEnv.featureFlags))
    /\ MapOf(result.variables) =
         KeyByKey(MapOf(baseEnv.variables), MapOf(overrideEnv.variables))

RECURSIVE EnvironmentsMergedInTurn(_, _)
EnvironmentsMergedInTurn(env, later) ==
    IF later = <<>> THEN env
    ELSE EnvironmentsMergedInTurn(mergeEnvironmentEntry(env, Head(later)), Tail(later))

\* C18 as stated: the result lists every base environment in base order (as-is
\* when its name does not occur in override, merged with an override
\* environment of that name otherwise), followed by every environment whose
\* name occurs only in override, as-is and in override order.
C18_BaseThenOverrideOnlyEnvironments ==
    Called("merge") =>
        LET b == ListOf(base.environments)
            o == ListOf(override.environments)
            overrideOnly == SelectSeq(o, LAMBDA e : Named(b, e.name) = <<>>)
            r == ListOf(ret.result.environments)
        IN /\ Len(r) = Len(b) + Len(overrideOnly)
           /\ \A i \in 1..Len(b) :
                IF Named(o, b[i].name) = <<>> THEN r[i] = b[i]
                ELSE \E j \in 1..Len(o) :
                       o[j].name = b[i].name /\ IsEnvironmentMerge(r[i], b[i], o[j])
           /\ \A j \in 1..Len(overrideOnly) : r[Len(b) + j] = overrideOnly[j]

\* C18 amended: when a side has no environments list the result is the other
\* side's; else the result has one environment per distinct name, in the order
\* of first occurrence over base's list followed by override's: for a name of
\* base, the last base environment with the name merged in turn with override's
\* environments of that name; for a name only override has, its first override
\* environment merged in turn with the later ones.  Merging two environments
\* gives overrides by the settings-merge rule and featureFlags and variables
\* key by key with override's value on shared keys.  With names distinct within
\* each list: base environments first, override-only ones appended as-is.
C18_OneEnvironmentPerName ==
    Called("merge") =>
        LET b == ListOf(base.environments)
            o == ListOf(override.environments)
            r == ListOf(ret.result.environments)
        IN IF base.environments = Null THEN ret.result.environments = override.environments
           ELSE IF override.environments = Null
           THEN ret.result.environments = base.environments
           ELSE /\ ret.result.environments # Null
                /\ NamesOf(r) = DistinctIds(NamesOf(b) \o NamesOf(o))
                /\ \A i \in 1..Len(r) :
                     LET inBase == Named(b, r[i].name)
                         inOverride == Named(o, r[i].name)
                     IN /\ r[i] = IF inBase # <<>>
                                  THEN EnvironmentsMergedInTurn(inBase[Len(inBase)], inOverride)
                                  ELSE EnvironmentsMergedInTurn(Head(inOverride),
                                                                Tail(inOverride))
                        /\ (inBase # <<>> /\ Len(inOverride) = 1) =>
                             IsEnvironmentMerge(r[i], inBase[Len(inBase)], inOverride[1])
                        /\ (inBase = <<>> /\ Len(inOverride) = 1) => r[i] = inOverride[1]
                        /\ (Len(inBase) = 1 /\ inOverride = <<>>) => r[i] = inBase[1]

\* base [dev] and override [dev, prod]: dev merged (a flag of base kept, a
\* shared flag from override, base's overrides kept), prod appended as-is
C18_Witness ==
    /\ Called("merge")
    /\ base.environments # Null /\ override.environments # Null
    /\ NamesOf(ListOf(base.environments)) = <<"dev">>
    /\ NamesOf(ListOf(override.environments)) = <<"dev", "prod">>
    /\ base.environments[1][1].featureFlags = Some([autoApproval |-> FALSE, beta |-> TRUE])
    /\ base.environments[1][1].overrides = Some(SettingsB)
    /\ override.environments[1][1].featureFlags = Some([beta |-> FALSE])
    /\ NamesOf(ListOf(ret.result.environments)) = <<"dev", "prod">>
    /\ ret.result.environments[1][1].featureFlags =
         Some([autoApproval |-> FALSE, beta |-> FALSE])
    /\ ret.result.environments[1][1].overrides = Some(SettingsB)
    /\ ret.result.environments[1][2] = override.environments[1][2]

EnvironmentKnown(config, name) ==
    \E i \in 1..Len(ListOf(config.environments)) : ListOf(config.environments)[i].name = name

\* the environment a lookup by name yields: the first one listed with the name
TheEnvironment(config, name) == Named(ListOf(config.environments), name)[1]

\* C19: for every configuration and every name that is not the name of one of
\* its environments (also when it has no environments list), mergeEnvironment
\* returns a value equal to the configuration: no globalSettings is changed and
\* no appliedEnvironment, environmentVariables or featureFlags key is added.
C19_UnknownEnvironmentIsNoOp ==
    (Called("mergeEnvironment") /\ ~EnvironmentKnown(base, ret.environmentName)) =>
        /\ ret.result = base
        /\ \A i \in 1..Len(base.workflows) :
             ret.result.workflows[i].globalSettings = base.workflows[i].globalSettings
        /\ DOMAIN MapOf(ret.result.metadata) = DOMAIN MapOf(base.metadata)

\* the configuration has environments with overrides and a workflow with
\* settings, but none with the requested name: it comes back as it was
C19_Witness ==
    /\ Called("mergeEnvironment") /\ ~EnvironmentKnown(base, ret.environmentName)
    /\ base.environments # Null
    /\ \E i \in 1..Len(base.environments[1]) : base.environments[1][i].overrides # Null
    /\ \E i \in 1..Len(base.workflows) : base.workflows[i].globalSettings # Null
    /\ ret.result = base

\* C20: when the named environment exists, in the configuration mergeEnvironment
\* returns every workflow that had globalSettings has the settings-merge of its
\* own settings (base side) with the environment's overrides (override side),
\* every workflow that had none has the environment's overrides, and the rest
\* of each workflow (id, phases, transitions, initialPhase, ...) is the input's.
C20_EnvironmentOverridesApplied ==
    (Called("mergeEnvironment") /\ EnvironmentKnown(base, ret.environmentName)) =>
        LET overrides == TheEnvironment(base, ret.environmentName).overrides
        IN /\ Len(ret.result.workflows) = Len(base.workflows)
           /\ \A i \in 1..Len(base.workflows) :
                LET before == base.workflows[i]
                    after == ret.result.workflows[i]
                IN /\ before.globalSettings # Null =>
                        IsSettingsMerge(after.globalSettings, before.globalSettings, overrides)
                   /\ before.globalSettings = Null => after.globalSettings = overrides
                   /\ after.id = before.id /\ after.phases = before.phases
                   /\ after.transitions = before.transitions
                   /\ after.initialPhase = before.initialPhase
                   /\ [after EXCEPT !.globalSettings = before.globalSettings] = before

\* one workflow with settings and one without, and an environment whose
\* overrides change the flag and add a channel: the first gets both sides'
\* settings, the second the overrides
C20_Witness ==
    /\ Called("mergeEnvironment") /\ EnvironmentKnown(base, ret.environmentName)
    /\ TheEnvironment(base, ret.environmentName).overrides = Some(SettingsB)
    /\ Len(base.workflows) = 2
    /\ base.workflows[1].globalSettings = Some(SettingsA)
    /\ base.workflows[2].globalSettings = Null
    /\ ret.result.workflows[1].globalSettings[1].requireApprovalForTransitions = Some(FALSE)
    /\ ret.result.workflows[1].globalSettings[1].defaultApprovers = Some(<<"u1">>)
    /\ ret.result.workflows[1].globalSettings[1].notificationChannels = Some(<<"c1">>)
    /\ ret.result.workflows[2].globalSettings = Some(SettingsB)

EnvironmentKeys == {"appliedEnvironment", "environmentVariables", "featureFlags"}

\* C21: when the named environment exists, the metadata of mergeEnvironment's
\* result has appliedEnvironment = the name, environmentVariables = the
\* environment's variables and featureFlags = the environment's featureFlags,
\* whatever these keys held before, and every other metadata key of the input
\* with its input value (and no further key).
C21_EnvironmentMetadata ==
    (Called("mergeEnvironment") /\ EnvironmentKnown(base, ret.environmentName)) =>
        LET env == TheEnvironment(base, ret.environmentName)
            before == MapOf(base.metadata)
        IN /\ ret.result.metadata # Null
           /\ LET after == ret.result.metadata[1]
              IN /\ DOMAIN after = DOMAIN before \cup EnvironmentKeys
                 /\ after["appliedEnvironment"] = ret.environmentName
                 /\ after["environmentVariables"] = env.variables
                 /\ after["featureFlags"] = env.featureFlags
                 /\ \A k \in DOMAIN before \ EnvironmentKeys : after[k] = before[k]

\* the configuration was tagged with another environment before: the tag is
\* replaced and the variables and flags of the applied environment are attached
C21_Witness ==
    /\ Called("mergeEnvironment") /\ EnvironmentKnown(base, ret.environmentName)
    /\ base.metadata = Some([appliedEnvironment |-> "old"])
    /\ TheEnvironment(base, ret.environmentName).variables = Some([LOG_LEVEL |-> "info"])
    /\ ret.result.metadata[1]["appliedEnvironment"] = ret.environmentName
    /\ ret.result.metadata[1]["environmentVariables"] = Some([LOG_LEVEL |-> "info"])
    /\ ret.result.metadata[1]["featureFlags"] = Some([autoApproval |-> TRUE])

(***************************************************************************)
(* Uniqueness of ids in an accepted configuration (checked under           *)
(* SpecValidate).                                                          *)
(***************************************************************************)
NoRepeat(ids) == \A i, j \in 1..Len(ids) : ids[i] = ids[j] => i = j

UniqueIds(config) ==
    /\ NoRepeat([w \in WfIdx(config) |-> config.workflows[w].id])
    /\ \A w \in WfIdx(config) :
         LET wf == config.workflows[w] IN
           /\ NoRepeat([p \in PhIdx(wf) |-> wf.phases[p].id])
           /\ \A p \in PhIdx(wf) :
                NoRepeat([t \in 1..Len(wf.phases[p].tasks) |-> wf.phases[p].tasks[t].id])

\* C26: a configuration for which validate returns valid = true has no two
\* workflows with the same id, no two phases of one workflow with the same id
\* and no two tasks of one phase with the same id.
C26_ValidImpliesUniqueIds ==
    (Validated /\ vres.valid) => UniqueIds(input)

(***************************************************************************)
(* The transition graph of an accepted configuration (checked under        *)
(* SpecNav).                                                               *)
(***************************************************************************)
AcceptedAndSet == stage = "set" /\ vres.valid

\* the phases validate flags as unused in a workflow declared with this id
FlaggedUnused(workflowId) ==
    {input.workflows[w].phases[p].id :
       <<w, p>> \in {wp \in UNION {{<<w, p>> : p \in PhIdx(input.workflows[w])} :
                                      w \in WfIdx(input)} :
                       /\ input.workflows[wp[1]].id = workflowId
                       /\ HasUnusedWarning(wp[1], wp[2])}}

\* C29: for a configuration that validate accepts and setConfig stores, every
\* transition of getAvailableTransitions(w, a) leaves a and enters a declared
\* phase of workflow w, canTransition(w, a, b) = true makes getPhase(w, b)
\* defined, and no available transition enters a phase flagged unused.
C29_ClosedTransitionGraph ==
    AcceptedAndSet =>
        /\ Called("getAvailableTransitions") =>
             \A i \in 1..Len(ret.result) :
               /\ ret.result[i].from = ret.phaseId
               /\ ret.result[i].to \in DeclaredPhaseIds(TheWorkflow(ret.workflowId))
               /\ ret.result[i].to \notin FlaggedUnused(ret.workflowId)
        /\ (Called("canTransition") /\ ret.result) =>
             getPhase(pmConfig, ret.workflowId, ret.to) # Null

(***************************************************************************)
(* PhaseManager over a session of setConfig calls and queries (checked     *)
(* under SpecSession).                                                     *)
(***************************************************************************)
\* the argument of the most recent setConfig, null before the first call
LastSet == IF calls = 0 THEN Null ELSE Some(input)

\* C25: the current configuration is the argument of the most recent setConfig
\* and no query changes it: every answer is the one computed from that
\* argument, and a repeated query returns an answer equal to the first.
C25_QueriesLeaveConfiguration ==
    InSession =>
        /\ pmConfig = LastSet
        /\ ret # NoRet =>
             /\ ret.result = Answer(LastSet, ret)
             /\ ret.repeated => ret.result = ret.first

C25_Witness ==
    /\ InSession
    /\ calls = 2
    /\ ret # NoRet
    /\ ret.op = "getAvailableTransitions"
    /\ ret.repeated
    /\ ret.result = <<ImplicitTransition("p1", "p2")>>
    /\ pmConfig = Some(input)
    /\ getWorkflow(pmConfig, ret.workflowId)[1].transitions = <<>>

(***************************************************************************)
(* Queries in flight while setConfig runs (checked under SpecInterleaved). *)
(***************************************************************************)
\* the answers a query has over single configurations
ConsistentAnswers(query) ==
    {Answer(Null, query)} \cup {Answer(Some(config), query) : config \in InterleavedConfigs}

\* C27: a query reads the reference more than once; when no setConfig runs
\* between the reads of a call its result is the one computed from the one
\* configuration current at its start, and a result that no single
\* configuration gives arises only from a call that setConfig overlapped.
C27_MixedResultOnlyWhenOverlapped ==
    ret # NoRet =>
        /\ ~ret.overlapped => ret.result = Answer(ret.started, ret)
        /\ ret.result \notin ConsistentAnswers(ret) => ret.overlapped

\* explicit transitions of the old workflow with nextPhases of the new phase
C27_Witness ==
    /\ ret # NoRet
    /\ ret.op = "getAvailableTransitions"
    /\ ret.overlapped
    /\ ret.result = <<NewTransition("p1", "p2"), ImplicitTransition("p1", "zz")>>
    /\ ret.result \notin ConsistentAnswers(ret)
    /\ pmConfig # ret.started

(***************************************************************************)
(* Loading from text (checked under SpecLoad).                             *)
(***************************************************************************)
\* a message cut at each occurrence of the separator part
RECURSIVE CutAt(_, _, _)
CutAt(parts, separator, piece) ==
    IF parts = <<>> THEN <<piece>>
    ELSE IF Head(parts) = separator
         THEN <<piece>> \o CutAt(Tail(parts), separator, <<>>)
         ELSE CutAt(Tail(parts), separator, Append(piece, Head(parts)))

\* what validate collects for a loaded document that is a value at all
CollectedErrors ==
    IF input.kind = "mapping" THEN validate(input.document).errors
    ELSE <<SchemaError("/", "type", "object")>>

\* C24: loading parses, then validates.  A text that does not parse fails
\* with "Invalid YAML syntax: ..." before validate is called; a parsed
\* document with at least one schema or integrity error fails with one error,
\* "Invalid configuration: " and the "path: message" of every collected error
\* joined by ", "; any other text returns the parsed configuration, warnings
\* or not.  No text has another outcome.
C24_ThreeOutcomes ==
    Called("loadFromString") =>
        LET out == ret.result IN
          IF input.kind = "malformed"
          THEN /\ out.outcome = "threw" /\ out.name = "Error"
               /\ Head(out.message) = "Invalid YAML syntax: "
               /\ out.steps = <<"yaml.load">>
          ELSE IF CollectedErrors # <<>>
          THEN /\ out.outcome = "threw" /\ out.name = "Error"
               /\ Head(out.message) = "Invalid configuration: "
               /\ CutAt(Tail(out.message), ", ", <<>>) =
                    [i \in 1..Len(CollectedErrors) |->
                       <<CollectedErrors[i].path, ": ">> \o CollectedErrors[i].message]
               /\ out.steps = <<"yaml.load", "validate">>
          ELSE /\ out.outcome = "returned"
               /\ out.config = input.document
               /\ out.steps = <<"yaml.load", "validate">>

\* C30 as stated: applying the environment to the result of applying it gives
\* a configuration equal to that result.
C30_SecondApplicationEqual ==
    (Called("mergeEnvironmentAgain") /\ EnvironmentKnown(base, ret.environmentName)) =>
        ret.result = ret.first

\* a settings block with a missing timeoutSettings or integrations made {}
WithEmptyObjects(settings) ==
    IF settings = Null THEN Null
    ELSE Some([settings[1] EXCEPT !.timeoutSettings = Some(MapOf(@)),
                                  !.integrations = Some(MapOf(@))])

\* C30: the second application of an environment changes nothing but this: in
\* a workflow that had no globalSettings before the first application (and so
\* received the environment's overrides), a missing timeoutSettings or
\* integrations becomes an empty object.  Everything else, metadata included,
\* equals the first result, so the two results are equal when every workflow
\* had globalSettings, when the environment has no overrides, or when its
\* overrides carry both objects.
C30_SecondApplicationAddsEmptyObjectsOnly ==
    (Called("mergeEnvironmentAgain") /\ EnvironmentKnown(base, ret.environmentName)) =>
        /\ Len(ret.first.workflows) = Len(base.workflows)
        /\ ret.result =
             [ret.first EXCEPT !.workflows =
                [i \in 1..Len(@) |->
                   IF base.workflows[i].globalSettings = Null
                   THEN [@[i] EXCEPT !.globalSettings = WithEmptyObjects(@)]
                   ELSE @[i]]]

\* one workflow with settings, one without; the overrides lack integrations:
\* after the second application the second workflow alone has changed
C30_Witness ==
    /\ Called("mergeEnvironmentAgain") /\ EnvironmentKnown(base, ret.environmentName)
    /\ TheEnvironment(base, ret.environmentName).overrides = Some(SettingsB)
    /\ Len(base.workflows) = 2
    /\ base.workflows[1].globalSettings = Some(SettingsA)
    /\ base.workflows[2].globalSettings = Null
    /\ ret.result.workflows[1] = ret.first.workflows[1]
    /\ ret.first.workflows[2].globalSettings = Some(SettingsB)
    /\ ret.result.workflows[2].globalSettings =
         Some([SettingsB EXCEPT !.integrations = Some(EmptyMap)])
    /\ ret.result.metadata = ret.first.metadata

\* the reference errors validate's integrity checks collect for a configuration
IntegrityErrors(config) ==
    Flatten([w \in 1..Len(config.workflows) |->
               WorkflowReferenceErrors(config.workflows[w], Idx(w))])

\* C28: when base and override each pass validate's integrity checks (every
\* initialPhase, nextPhases id, transition endpoint and task dependency
\* resolves), every workflow carrying its own initialPhase, phases and
\* transitions, merge(base, override) passes them too.
C28_MergeKeepsIntegrity ==
    (Called("merge") /\ IntegrityErrors(base) = <<>> /\ IntegrityErrors(override) = <<>>) =>
        /\ IntegrityErrors(ret.result) = <<>>
        /\ AllReferencesResolve(ret.result)

\* workflow a of base has the single phase p1, override's a starts at p2 and
\* has its own phases and transition: the merged a is override's graph
C28_Witness ==
    /\ Called("merge")
    /\ IntegrityErrors(base) = <<>> /\ IntegrityErrors(override) = <<>>
    /\ IdsOf(base.workflows) = <<"a", "b">>
    /\ IdsOf(override.workflows) = <<"a">>
    /\ base.workflows[1].initialPhase = "p1"
    /\ Len(base.workflows[1].phases) = 1
    /\ override.workflows[1].initialPhase = "p2"
    /\ ret.result.workflows[1].initialPhase = "p2"
    /\ ret.result.workflows[1].phases = override.workflows[1].phases
    /\ ret.result.workflows[1].transitions = <<NewTransition("p2", "p1")>>
    /\ ret.result.workflows[2] = base.workflows[2]
    /\ IntegrityErrors(ret.result) = <<>>

(***************************************************************************)
(* The merger's arguments and results as objects (checked under            *)
(* SpecObjects).                                                           *)
(***************************************************************************)
\* the objects of the arguments of the call in ret
ArgumentObjects ==
    Reachable(ret.before, IF ret.op = "merge" THEN {base, override} ELSE {base})

ResultObjects == Reachable(heap, {ret.result})

\* C22: after merge(base, override) and after mergeEnvironment(config, name)
\* every object of an argument holds what it held before the call: no
\* workflow, settings block, environment, list or map of an input has changed.
C22_ArgumentsUnchanged ==
    (stage = "objects" /\ ret # NoRet) =>
        \A at \in DOMAIN ret.before : at \in DOMAIN heap /\ heap[at] = ret.before[at]

\* the environment is applied to a workflow without globalSettings: the copy
\* in the result received the overrides, the argument's workflow still has none
C22_Witness ==
    /\ stage = "objects" /\ Called("mergeEnvironment")
    /\ ret.result # base
    /\ Len(Items(heap, heap[base].refs.workflows)) = 2
    /\ Ref(heap, Items(heap, heap[base].refs.workflows)[2], "globalSettings") = Null
    /\ Ref(heap, Items(heap, heap[ret.result].refs.workflows)[2], "globalSettings") # Null
    /\ Ref(heap, Items(heap, heap[base].refs.workflows)[1], "globalSettings") # Null
    /\ Ref(heap, Items(heap, heap[ret.result].refs.workflows)[1], "globalSettings")
         = Some("applied.workflows#0.globalSettings")
    /\ Ref(heap, ret.result, "metadata") = Some("applied.metadata")
    /\ heap[base] = ret.before[base]

\* C23: the configuration merge or mergeEnvironment returns shares no object
\* with an argument.
C23_ResultSharesNothing ==
    (stage = "objects" /\ ret # NoRet) => ResultObjects \cap ArgumentObjects = {}
====
